---- MODULE Spec2Model ----
(***************************************************************************)
(* Recurring unavailability resolution of the workforce-attendance         *)
(* backend: rule and exception records, the weekly expander, the window    *)
(* algebra (merge / subtract) and the resolver that folds them into        *)
(* per-date blocked windows.                                               *)
(*                                                                         *)
(* A Date is its time value in milliseconds.  The calendar of the model is *)
(* February 2026, and instant 0 is 2026-02-01T00:00:00.000Z, a Sunday.     *)
(* The process's local zone is a fixed offset of TzHours hours east of     *)
(* UTC (no daylight saving); zones west of UTC are not covered.            *)
(***************************************************************************)
EXTENDS Integers, Sequences, FiniteSets, TLC

\* ------------------------------------------------------------------ bounds
TzHours == 0          \* local zone of the process, hours east of UTC
MaxRules == 2         \* rule rows in the table
MaxExceptions == 3    \* exception rows in the table
MaxLen == 3           \* length of a drawn window list
MaxT == 3             \* largest instant of a drawn window
MaxSpan == 14         \* longest drawn query range, in days after its start
MaxShiftDays == 1     \* days after its start date a drawn shift may end on
MaxShifts == 2        \* Shift rows in the table
MaxBatch == 2         \* shifts in one bulkCreate request
MaxCalls == 2         \* check-in calls made in one behaviour
MaxBase == 2          \* windows in a drawn base list of subtractWindows
MaxCuts == 2          \* windows in a drawn cut list of subtractWindows
MaxDay == 20          \* last day of February 2026 a property ranges over

\* --------------------------------------------------------------- Date (JS)
MsPerMinute == 60 * 1000
MsPerHour == 60 * MsPerMinute
MsPerDay == 24 * 60 * 60 * 1000

Null == <<>>

\* new Date("YYYY-MM-DD"): a date-only string is read as midnight UTC.  The
\* string is held as its three fields <<year, month, day>>.
NewDateFromString(s) == (s[3] - 1) * MsPerDay

\* local calendar fields of an instant
LocalDayIndex(t) == (t + TzHours * MsPerHour) \div MsPerDay
getFullYear(t) == 2026
getMonth(t) == 1
getDate(t) == LocalDayIndex(t) + 1
getDay(t) == LocalDayIndex(t) % 7

\* date.setHours(h, m, s, ms): same local calendar day, given wall-clock time
setHours(t, h, m, s, ms) ==
  LocalDayIndex(t) * MsPerDay - TzHours * MsPerHour
    + h * MsPerHour + m * MsPerMinute + s * 1000 + ms

startOfDay(date) == setHours(date, 0, 0, 0, 0)

endOfDay(date) == setHours(date, 23, 59, 59, 999)

\* `${year}-${month}-${day}` with zero padding, held as its three fields
dateKey(date) == <<getFullYear(date), getMonth(date) + 1, getDate(date)>>

parseDateKey(key) == startOfDay(NewDateFromString(key))

\* UnavailabilityService.parseDate / controller parseDate
parseDate(dateString) == setHours(NewDateFromString(dateString), 0, 0, 0, 0)

\* ---------------------------------------------------- "HH:mm" time strings
\* A time string is the sequence of its characters.
Digits == <<"0", "1", "2", "3", "4", "5", "6", "7", "8", "9">>

DigitValue(c) == (CHOOSE i \in 1..10 : Digits[i] = c) - 1

RECURSIVE Number(_)
Number(s) ==
  IF s = <<>> THEN 0
  ELSE Number(SubSeq(s, 1, Len(s) - 1)) * 10 + DigitValue(s[Len(s)])

\* timeString.split(':').map(Number), first two parts
SplitTime(timeString) ==
  LET i == CHOOSE k \in 1..Len(timeString) :
             timeString[k] = ":" /\ \A j \in 1..(k - 1) : timeString[j] # ":"
  IN <<Number(SubSeq(timeString, 1, i - 1)),
       Number(SubSeq(timeString, i + 1, Len(timeString)))>>

parseLocalTime(timeString, date) ==
  LET hm == SplitTime(timeString)
  IN setHours(date, hm[1], hm[2], 0, 0)

\* ----------------------------------------------------------- stable sort
\* Array.prototype.sort with a numeric comparator: ascending by key, equal
\* keys keep their input order.  keys[i] is the sort key of seq[i].
SortByKey(seq, keys) ==
  LET n == Len(seq)
      pos(i) == 1 + Cardinality({j \in 1..n :
                     keys[j] < keys[i] \/ (keys[j] = keys[i] /\ j < i)})
  IN [p \in 1..n |-> seq[CHOOSE i \in 1..n : pos(i) = p]]

\* ---------------------------------------------------------- window algebra
Window(s, e) == [start |-> s, end |-> e]

\* faulty variant: the sort by start is left out
SortByStartSkipped(windows) == windows

SortByStart(windows) ==
  SortByKey(windows, [i \in 1..Len(windows) |-> windows[i].start])

\* the loop body of mergeWindows, over the rest of the sorted list
RECURSIVE MergeLoop(_, _)
MergeLoop(sorted, merged) ==
  IF sorted = <<>> THEN merged
  ELSE LET current == Head(sorted)
           last == merged[Len(merged)]
       IN IF current.start <= last.end
          THEN MergeLoop(Tail(sorted),
                 [merged EXCEPT ![Len(merged)].end =
                    IF current.end > last.end THEN current.end ELSE last.end])
          ELSE MergeLoop(Tail(sorted), Append(merged, current))

mergeWindows(windows) ==
  IF Len(windows) = 0 THEN <<>>
  ELSE LET sorted == SortByStart(windows)
       IN MergeLoop(Tail(sorted), <<Head(sorted)>>)

\* faulty variant: the remainder after the cut is not pushed
RECURSIVE SubtractOneLosesTail(_, _)
SubtractOneLosesTail(result, exception) ==
  IF result = <<>> THEN <<>>
  ELSE LET window == Head(result)
           rest == SubtractOneLosesTail(Tail(result), exception)
       IN IF window.end <= exception.start \/ window.start >= exception.end
          THEN <<window>> \o rest
          ELSE (IF window.start < exception.start
                THEN <<Window(window.start, exception.start)>> ELSE <<>>)
               \o rest

\* faulty variant: the remainder after the cut starts where the cut starts
RECURSIVE SubtractOneTailFromCutStart(_, _)
SubtractOneTailFromCutStart(result, exception) ==
  IF result = <<>> THEN <<>>
  ELSE LET window == Head(result)
           rest == SubtractOneTailFromCutStart(Tail(result), exception)
       IN IF window.end <= exception.start \/ window.start >= exception.end
          THEN <<window>> \o rest
          ELSE (IF window.start < exception.start
                THEN <<Window(window.start, exception.start)>> ELSE <<>>)
               \o (IF window.end > exception.end
                   THEN <<Window(exception.start, window.end)>> ELSE <<>>)
               \o rest

\* the inner loop of subtractWindows: one exception window against result
RECURSIVE SubtractOne(_, _)
SubtractOne(result, exception) ==
  IF result = <<>> THEN <<>>
  ELSE LET window == Head(result)
           rest == SubtractOne(Tail(result), exception)
       IN IF window.end <= exception.start \/ window.start >= exception.end
          THEN <<window>> \o rest
          ELSE (IF window.start < exception.start
                THEN <<Window(window.start, exception.start)>> ELSE <<>>)
               \o (IF window.end > exception.end
                   THEN <<Window(exception.end, window.end)>> ELSE <<>>)
               \o rest

\* faulty variant: the result is merged before it is returned
RECURSIVE subtractWindowsMerged(_, _)
subtractWindowsMerged(windows, exceptions) ==
  IF exceptions = <<>> THEN mergeWindows(windows)
  ELSE subtractWindowsMerged(SubtractOne(windows, Head(exceptions)), Tail(exceptions))

RECURSIVE subtractWindows(_, _)
subtractWindows(windows, exceptions) ==
  IF exceptions = <<>> THEN windows
  ELSE subtractWindows(SubtractOne(windows, Head(exceptions)), Tail(exceptions))

\* ------------------------------------------------------------- the expander
\* A rule or exception row carries allDay and the two nullable time strings.
createWindowsForRule(rule, date) ==
  IF rule.allDay
  THEN <<Window(startOfDay(date), endOfDay(date))>>
  ELSE IF rule.startTimeLocal = Null \/ rule.endTimeLocal = Null
  THEN <<>>
  ELSE LET start == parseLocalTime(rule.startTimeLocal, date)
           end == parseLocalTime(rule.endTimeLocal, date)
       IN IF end < start
          THEN <<Window(start, endOfDay(date)),
                 Window(startOfDay(date + 24 * 60 * 60 * 1000), end)>>
          ELSE <<Window(start, end)>>

\* faulty variant: Sunday first, 1=Sunday..7=Saturday
WeekdayNumberSundayFirst(dayOfWeek) == dayOfWeek + 1

\* getDay() 0=Sunday..6=Saturday to 1=Monday..7=Sunday
WeekdayNumber(dayOfWeek) == IF dayOfWeek = 0 THEN 7 ELSE dayOfWeek

\* the while loop of expandWeeklyRule; current.setDate(current.getDate() + 1)
\* moves to the same wall-clock time of the next local day
RECURSIVE ExpandLoop(_, _, _, _, _)
ExpandLoop(rule, current, to, effectiveFrom, effectiveTo) ==
  IF ~(current <= to) THEN <<>>
  ELSE LET weekdayNumber == WeekdayNumber(getDay(current))
           here == IF /\ weekdayNumber \in rule.byweekday
                      /\ current >= effectiveFrom
                      /\ current <= effectiveTo
                   THEN <<[date |-> current,
                           windows |-> createWindowsForRule(rule, current)]>>
                   ELSE <<>>
       IN here \o ExpandLoop(rule, current + MsPerDay, to,
                             effectiveFrom, effectiveTo)

expandWeeklyRule(rule, from, to) ==
  LET effectiveFrom == IF rule.effectiveFrom # Null
                       THEN startOfDay(rule.effectiveFrom[1]) ELSE from
      effectiveTo == IF rule.effectiveTo # Null
                     THEN startOfDay(rule.effectiveTo[1]) ELSE to
  IN ExpandLoop(rule, from, to, effectiveFrom, effectiveTo)

\* ------------------------------------------------------------ the resolver
\* faulty variant: REPLACE keeps the windows accumulated so far
applyExceptionKeepsBase(windows, exception, date) ==
  LET exceptionWindows == createWindowsForRule(exception, date)
  IN CASE exception.type = "REPLACE" -> windows \o exceptionWindows
       [] exception.type = "REMOVE" -> subtractWindows(windows, exceptionWindows)
       [] exception.type = "ADD" -> mergeWindows(windows \o exceptionWindows)
       [] OTHER -> windows

applyException(windows, exception, date) ==
  LET exceptionWindows == createWindowsForRule(exception, date)
  IN CASE exception.type = "REPLACE" -> exceptionWindows
       [] exception.type = "REMOVE" -> subtractWindows(windows, exceptionWindows)
       [] exception.type = "ADD" -> mergeWindows(windows \o exceptionWindows)
       [] OTHER -> windows

\* faulty variant: no priority, the exceptions stay in arrival order
ExceptionOrderArrival(type) == 0

\* const order = { REPLACE: 0, REMOVE: 1, ADD: 2 }
ExceptionOrder(type) ==
  CASE type = "REPLACE" -> 0 [] type = "REMOVE" -> 1 [] type = "ADD" -> 2

SortExceptions(dateExceptions) ==
  SortByKey(dateExceptions,
            [i \in 1..Len(dateExceptions) |-> ExceptionOrder(dateExceptions[i].type)])

\* A Map is the sequence of its entries in insertion order.
MapHas(m, k) == \E i \in 1..Len(m) : m[i].key = k
MapGet(m, k) == m[CHOOSE i \in 1..Len(m) : m[i].key = k].val
MapSet(m, k, v) ==
  IF MapHas(m, k)
  THEN [i \in 1..Len(m) |-> IF m[i].key = k THEN [key |-> k, val |-> v] ELSE m[i]]
  ELSE Append(m, [key |-> k, val |-> v])

\* employeeUnavailabilityRule.findMany({ where ... })
RuleMatches(r, employeeId, from, to) ==
  /\ r.employeeId = employeeId
  /\ r.status = "ACTIVE"
  /\ \/ r.effectiveFrom = Null /\ r.effectiveTo = Null
     \/ r.effectiveFrom # Null /\ r.effectiveFrom[1] <= to /\ r.effectiveTo = Null
     \/ r.effectiveFrom = Null /\ r.effectiveTo # Null /\ r.effectiveTo[1] >= from
     \/ /\ r.effectiveFrom # Null /\ r.effectiveFrom[1] <= to
        /\ r.effectiveTo # Null /\ r.effectiveTo[1] >= from

FindRules(table, employeeId, from, to) ==
  LET Test(r) == RuleMatches(r, employeeId, from, to)
  IN SelectSeq(table, Test)

\* employeeUnavailabilityException.findMany({ where ..., orderBy dateLocal })
FindExceptions(table, employeeId, from, to) ==
  LET Test(e) == e.employeeId = employeeId /\ e.dateLocal >= from /\ e.dateLocal <= to
      found == SelectSeq(table, Test)
  IN SortByKey(found, [i \in 1..Len(found) |-> found[i].dateLocal])

\* "Group exceptions by date"
RECURSIVE GroupByDate(_, _)
GroupByDate(exceptionsByDate, exceptions) ==
  IF exceptions = <<>> THEN exceptionsByDate
  ELSE LET exception == Head(exceptions)
           key == dateKey(exception.dateLocal)
           m == IF MapHas(exceptionsByDate, key) THEN exceptionsByDate
                ELSE MapSet(exceptionsByDate, key, <<>>)
       IN GroupByDate(MapSet(m, key, Append(MapGet(m, key), exception)),
                      Tail(exceptions))

\* the inner loop over one rule's occurrences
RECURSIVE AddOccurrences(_, _)
AddOccurrences(resolvedByDate, occurrences) ==
  IF occurrences = <<>> THEN resolvedByDate
  ELSE LET occurrence == Head(occurrences)
           key == dateKey(occurrence.date)
           m == IF MapHas(resolvedByDate, key) THEN resolvedByDate
                ELSE MapSet(resolvedByDate, key,
                            [date |-> occurrence.date, windows |-> <<>>])
           resolved == MapGet(m, key)
       IN AddOccurrences(
            MapSet(m, key, [resolved EXCEPT !.windows = @ \o occurrence.windows]),
            Tail(occurrences))

\* "Expand rules into date occurrences"
RECURSIVE ExpandRules(_, _, _, _)
ExpandRules(resolvedByDate, rules, from, to) ==
  IF rules = <<>> THEN resolvedByDate
  ELSE ExpandRules(
         AddOccurrences(resolvedByDate, expandWeeklyRule(Head(rules), from, to)),
         Tail(rules), from, to)

\* for (const exception of sortedExceptions) windows = applyException(...)
RECURSIVE ApplySorted(_, _, _)
ApplySorted(windows, sortedExceptions, date) ==
  IF sortedExceptions = <<>> THEN windows
  ELSE ApplySorted(applyException(windows, Head(sortedExceptions), date),
                   Tail(sortedExceptions), date)

\* faulty variant: a date is kept only when windows remain
KeepsDateIfWindows(windows, dateExceptions) == Len(windows) > 0

\* if (windows.length > 0 || dateExceptions.length > 0)
KeepsDate(windows, dateExceptions) ==
  Len(windows) > 0 \/ Len(dateExceptions) > 0

\* "Apply exceptions": the loop over the entries of exceptionsByDate
RECURSIVE ApplyExceptions(_, _)
ApplyExceptions(resolvedByDate, entries) ==
  IF entries = <<>> THEN resolvedByDate
  ELSE LET dateKey_ == Head(entries).key
           dateExceptions == Head(entries).val
           date == parseDateKey(dateKey_)
           sortedExceptions == SortExceptions(dateExceptions)
           base == IF MapHas(resolvedByDate, dateKey_)
                   THEN MapGet(resolvedByDate, dateKey_).windows ELSE <<>>
           windows == ApplySorted(base, sortedExceptions, date)
           next == IF KeepsDate(windows, dateExceptions)
                   THEN MapSet(resolvedByDate, dateKey_,
                               [date |-> date, windows |-> mergeWindows(windows)])
                   ELSE resolvedByDate
       IN ApplyExceptions(next, Tail(entries))

resolveUnavailability(rulesTable, exceptionsTable, employeeId, fromDate, toDate) ==
  LET from == startOfDay(fromDate)
      to == startOfDay(toDate)
      rules == FindRules(rulesTable, employeeId, from, to)
      exceptions == FindExceptions(exceptionsTable, employeeId, from, to)
      exceptionsByDate == GroupByDate(<<>>, exceptions)
      expanded == ExpandRules(<<>>, rules, from, to)
      resolvedByDate == ApplyExceptions(expanded, exceptionsByDate)
      values == [i \in 1..Len(resolvedByDate) |-> resolvedByDate[i].val]
  IN SortByKey(values, [i \in 1..Len(values) |-> values[i].date])

\* ================================================================== state
VARIABLES
  rulesTable,        \* EmployeeUnavailabilityRule rows, in insertion order
  exceptionsTable,   \* EmployeeUnavailabilityException rows, in insertion order
  response,          \* what the last request returned
  input,             \* the arguments of the last call or request
  output,            \* what the functions returned for them
  availabilityTable, \* EmployeeAvailability rows with their windows and overrides
  shiftTable,        \* Shift rows, in insertion order
  sessionTable,      \* AttendanceSession rows, in insertion order
  calls              \* the check-in calls in flight and where each one stands

roster == <<availabilityTable, shiftTable, sessionTable, calls>>

vars == <<rulesTable, exceptionsTable, response, input, output, roster>>

Idle == [op |-> "none"]

\* the scheduling tables before any row is stored
NoRoster ==
  /\ availabilityTable = <<>>
  /\ shiftTable = <<>>
  /\ sessionTable = <<>>
  /\ calls = <<>>

\* ----------------------------------------------------------------- inputs
T(a, b, c, d) == <<a, b, ":", c, d>>
Feb(d) == <<2026, 2, d>>

Employees == {"e1"}

RuleDto(days, allDay, s, e, from, to, status) ==
  [byweekday |-> days, allDay |-> allDay, startTimeLocal |-> s,
   endTimeLocal |-> e, effectiveFrom |-> from, effectiveTo |-> to,
   status |-> status]

ExceptionDto(date, type, allDay, s, e) ==
  [dateLocal |-> date, type |-> type, allDay |-> allDay,
   startTimeLocal |-> s, endTimeLocal |-> e]

\* the requests drawn for the service: 2026-02-03 is a Tuesday
RuleDtos ==
  { RuleDto({2, 3}, FALSE, T("0","9","0","0"), T("1","7","0","0"), Null, Null, ""),
    RuleDto({2}, TRUE, Null, Null, Null, Feb(3), ""),
    RuleDto({2}, FALSE, T("2","2","0","0"), T("0","6","0","0"), Feb(3), Null, "ACTIVE") }

ExceptionDtos ==
  { ExceptionDto(Feb(3), "REMOVE", FALSE, T("1","2","0","0"), T("1","3","0","0")),
    ExceptionDto(Feb(3), "REPLACE", FALSE, T("1","0","0","0"), T("1","1","0","0")),
    ExceptionDto(Feb(3), "ADD", FALSE, T("0","8","0","0"), T("0","9","0","0")),
    ExceptionDto(Feb(3), "REMOVE", TRUE, Null, Null),
    ExceptionDto(Feb(4), "REPLACE", FALSE, T("2","2","0","0"), T("0","6","0","0")) }

Queries == { <<Feb(3), Feb(3)>>, <<Feb(2), Feb(4)>>, <<Feb(4), Feb(2)>> }

\* ------------------------------------------------- UnavailabilityService
\* createRule: validation, then employeeUnavailabilityRule.create
createRule(employeeId, dto) ==
  /\ Len(rulesTable) < MaxRules
  /\ employeeId \in Employees
  /\ LET effectiveFrom == IF dto.effectiveFrom # Null
                          THEN <<parseDate(dto.effectiveFrom)>> ELSE Null
         effectiveTo == IF dto.effectiveTo # Null
                        THEN <<parseDate(dto.effectiveTo)>> ELSE Null
         bad == \/ ~dto.allDay /\ (dto.startTimeLocal = Null \/ dto.endTimeLocal = Null)
                \/ dto.byweekday = {}
                \/ \E day \in dto.byweekday : day < 1 \/ day > 7
                \/ /\ effectiveFrom # Null /\ effectiveTo # Null
                   /\ effectiveFrom[1] > effectiveTo[1]
         row == [employeeId |-> employeeId,
                 byweekday |-> dto.byweekday,
                 allDay |-> dto.allDay,
                 startTimeLocal |-> IF dto.allDay THEN Null ELSE dto.startTimeLocal,
                 endTimeLocal |-> IF dto.allDay THEN Null ELSE dto.endTimeLocal,
                 effectiveFrom |-> effectiveFrom,
                 effectiveTo |-> effectiveTo,
                 status |-> IF dto.status # "" THEN dto.status ELSE "ACTIVE"]
     IN IF bad
        THEN /\ response' = [op |-> "createRule", status |-> 400]
             /\ UNCHANGED rulesTable
        ELSE /\ rulesTable' = Append(rulesTable, row)
             /\ response' = [op |-> "createRule", status |-> 201]
  /\ UNCHANGED <<exceptionsTable, input, output, roster>>

\* createException: validation, then employeeUnavailabilityException.create
createException(employeeId, dto) ==
  /\ Len(exceptionsTable) < MaxExceptions
  /\ employeeId \in Employees
  /\ LET bad == ~dto.allDay /\ (dto.startTimeLocal = Null \/ dto.endTimeLocal = Null)
         row == [employeeId |-> employeeId,
                 dateLocal |-> parseDate(dto.dateLocal),
                 type |-> dto.type,
                 allDay |-> dto.allDay,
                 startTimeLocal |-> IF dto.allDay THEN Null ELSE dto.startTimeLocal,
                 endTimeLocal |-> IF dto.allDay THEN Null ELSE dto.endTimeLocal]
     IN IF bad
        THEN /\ response' = [op |-> "createException", status |-> 400]
             /\ UNCHANGED exceptionsTable
        ELSE /\ exceptionsTable' = Append(exceptionsTable, row)
             /\ response' = [op |-> "createException", status |-> 201]
  /\ UNCHANGED <<rulesTable, input, output, roster>>

\* faulty variant: an inverted range is put in order and resolved
getUnavailabilitySwapsBounds(employeeId, fromDate, toDate) ==
  /\ employeeId \in Employees
  /\ LET a == parseDate(fromDate)
         b == parseDate(toDate)
         from == IF a > b THEN b ELSE a
         to == IF a > b THEN a ELSE b
     IN response' =
          [op |-> "getUnavailability", status |-> 200,
           employeeId |-> employeeId, from |-> from, to |-> to,
           resolved |-> resolveUnavailability(rulesTable, exceptionsTable,
                                              employeeId, from, to)]
  /\ UNCHANGED <<rulesTable, exceptionsTable, input, output, roster>>

\* ------------------------------------------ UnavailabilityManagerController
\* getUnavailability: parse and validate the range, then resolve
getUnavailability(employeeId, fromDate, toDate) ==
  /\ employeeId \in Employees
  /\ LET from == parseDate(fromDate)
         to == parseDate(toDate)
     IN IF from > to
        THEN response' = [op |-> "getUnavailability", status |-> 400]
        ELSE response' =
               [op |-> "getUnavailability", status |-> 200,
                employeeId |-> employeeId, from |-> from, to |-> to,
                resolved |-> resolveUnavailability(rulesTable, exceptionsTable,
                                                   employeeId, from, to)]
  /\ UNCHANGED <<rulesTable, exceptionsTable, input, output, roster>>

Init ==
  /\ rulesTable = <<>>
  /\ exceptionsTable = <<>>
  /\ response = Idle
  /\ input = Idle
  /\ output = Idle
  /\ NoRoster

Next ==
  \/ \E e \in Employees, dto \in RuleDtos : createRule(e, dto)
  \/ \E e \in Employees, dto \in ExceptionDtos : createException(e, dto)
  \/ \E e \in Employees, q \in Queries : getUnavailability(e, q[1], q[2])

Spec == Init /\ [][Next]_vars

\* ===================================================== the window algebra
\* mergeWindows and subtractWindows applied to drawn window lists.  The
\* lists hold every pair of instants: createWindowsForRule returns windows
\* with end = start (equal time strings) and with end < start (the second
\* window of an overnight rule).
RECURSIVE SeqsUpTo(_, _)
SeqsUpTo(S, n) ==
  IF n = 0 THEN {<<>>}
  ELSE LET shorter == SeqsUpTo(S, n - 1)
       IN shorter \cup {Append(q, x) : q \in {r \in shorter : Len(r) = n - 1}, x \in S}

DrawnWindows == {Window(a, b) : a \in 0..MaxT, b \in 0..MaxT}

AlgebraInit ==
  /\ rulesTable = <<>>
  /\ exceptionsTable = <<>>
  /\ response = Idle
  /\ input \in {[op |-> "windows", w |-> w] : w \in SeqsUpTo(DrawnWindows, MaxLen)}
  /\ output = Idle
  /\ NoRoster

Merge ==
  /\ output' = [op |-> "mergeWindows",
                merged |-> mergeWindows(input.w),
                again |-> mergeWindows(mergeWindows(input.w))]
  /\ UNCHANGED <<rulesTable, exceptionsTable, response, input, roster>>

SubtractSelf ==
  /\ output' = [op |-> "subtractSelf", out |-> subtractWindows(input.w, input.w)]
  /\ UNCHANGED <<rulesTable, exceptionsTable, response, input, roster>>

SubtractNothing ==
  /\ output' = [op |-> "subtractNothing", out |-> subtractWindows(input.w, <<>>)]
  /\ UNCHANGED <<rulesTable, exceptionsTable, response, input, roster>>

AlgebraNext == Merge \/ SubtractSelf \/ SubtractNothing

AlgebraSpec == AlgebraInit /\ [][AlgebraNext]_vars

\* ------------------------------------------------ subtractWindows on pairs
\* subtractWindows applied to a drawn base list and a drawn cut list.  The
\* windows are the proper intervals over four instants, a zero-length one
\* and an inverted one.
CutWindows ==
  {Window(a, b) : a \in 0..3, b \in 1..3} \ {Window(2, 2), Window(3, 3), Window(3, 1),
                                              Window(3, 2)}

SubtractInit ==
  /\ rulesTable = <<>>
  /\ exceptionsTable = <<>>
  /\ response = Idle
  /\ input \in {[op |-> "lists", base |-> b, cuts |-> c] :
                  b \in SeqsUpTo(CutWindows, MaxBase), c \in SeqsUpTo(CutWindows, MaxCuts)}
  /\ output = Idle
  /\ NoRoster

\* the whole subtraction, and every base window against every cut alone
Subtract ==
  /\ output' = [op |-> "subtractWindows",
                out |-> subtractWindows(input.base, input.cuts),
                each |-> [i \in 1..Len(input.base) |->
                           [j \in 1..Len(input.cuts) |->
                              subtractWindows(<<input.base[i]>>, <<input.cuts[j]>>)]]]
  /\ UNCHANGED <<rulesTable, exceptionsTable, response, input, roster>>

SubtractSpec == SubtractInit /\ [][Subtract]_vars

\* ============================================================ the expander
\* expandWeeklyRule and createWindowsForRule applied to one drawn rule row
\* and query range; Resolve runs the resolver on a table holding that row.
ExpandWeekdays == {{1}, {7}, {2, 5}, 1..7}

ExpandTimes ==
  { <<T("1","6","0","0"), T("2","2","0","0")>>,
    <<T("2","2","0","0"), T("0","6","0","0")>>,
    <<T("0","9","3","0"), T("0","9","3","0")>> }

ExpandRows ==
  { [employeeId |-> "e1", byweekday |-> days, allDay |-> form = <<>>,
     startTimeLocal |-> IF form = <<>> THEN Null ELSE form[1],
     endTimeLocal |-> IF form = <<>> THEN Null ELSE form[2],
     effectiveFrom |-> ef, effectiveTo |-> et, status |-> "ACTIVE"] :
    days \in ExpandWeekdays, form \in ExpandTimes \cup {<<>>},
    ef \in {Null, <<parseDate(Feb(3))>>, <<parseDate(Feb(9))>>},
    et \in {Null, <<parseDate(Feb(9))>>, <<parseDate(Feb(12))>>} }

ExpandInit ==
  /\ rulesTable = <<>>
  /\ exceptionsTable = <<>>
  /\ response = Idle
  /\ input \in {[op |-> "rule", rule |-> r,
                 from |-> parseDate(Feb(f)),
                 to |-> parseDate(Feb(f + span))] :
                r \in ExpandRows, f \in 1..3, span \in {0, 6, 13, MaxSpan}}
  /\ output = Idle
  /\ NoRoster

Expand ==
  /\ output' = [op |-> "expandWeeklyRule",
                occurrences |-> expandWeeklyRule(input.rule, input.from, input.to)]
  /\ UNCHANGED <<rulesTable, exceptionsTable, response, input, roster>>

CreateWindows ==
  /\ \E k \in 1..3 :
       output' = [op |-> "createWindowsForRule", date |-> parseDate(Feb(k)),
                  windows |-> createWindowsForRule(input.rule, parseDate(Feb(k)))]
  /\ UNCHANGED <<rulesTable, exceptionsTable, response, input, roster>>

Resolve ==
  /\ output' = [op |-> "resolveUnavailability",
                resolved |-> resolveUnavailability(<<input.rule>>, <<>>, "e1",
                                                   input.from, input.to)]
  /\ UNCHANGED <<rulesTable, exceptionsTable, response, input, roster>>

\* the windows of the rule on one date, subtracted from themselves
SubtractOwn ==
  /\ \E k \in 1..3 :
       LET windows == createWindowsForRule(input.rule, parseDate(Feb(k)))
       IN output' = [op |-> "subtractOwn", date |-> parseDate(Feb(k)),
                     windows |-> windows,
                     out |-> subtractWindows(windows, windows)]
  /\ UNCHANGED <<rulesTable, exceptionsTable, response, input, roster>>

ExpandNext == Expand \/ CreateWindows \/ SubtractOwn \/ Resolve

ExpandSpec == ExpandInit /\ [][ExpandNext]_vars

\* ==================================================== the blocklist checker
\* UnavailabilityConstraintService.checkUnavailability over stored rows.
\* faulty variant: a window that only touches the shift blocks it
WindowBlocksClosed(window, shiftStartTime, shiftEndTime) ==
  shiftStartTime <= window.end /\ shiftEndTime >= window.start

\* the test made for each window of the day
WindowBlocks(window, shiftStartTime, shiftEndTime) ==
  shiftStartTime < window.end /\ shiftEndTime > window.start

\* the verdict on the awaited list: resolved.find takes the first entry of
\* the date, and the shift is tested against each of its windows
VerdictOn(resolved, dateOnly, shiftStartTime, shiftEndTime) ==
  LET key == dateKey(dateOnly)
      found == {i \in 1..Len(resolved) : dateKey(resolved[i].date) = key}
  IN IF found = {}
     THEN [blocked |-> FALSE, allowed |-> TRUE, reason |-> ""]
     ELSE CHOOSE verdict \in
            { IF \E k \in 1..Len(resolved[first].windows) :
                   WindowBlocks(resolved[first].windows[k], shiftStartTime, shiftEndTime)
              THEN [blocked |-> TRUE, allowed |-> FALSE,
                    reason |-> "Unavailable during this time"]
              ELSE [blocked |-> FALSE, allowed |-> TRUE, reason |-> ""] :
              first \in {i \in found : \A j \in found : i <= j} } : TRUE

\* the list is resolved once per call, as the code awaits it once
checkUnavailability(rules, exceptions, employeeId, date, shiftStartTime, shiftEndTime) ==
  LET dateOnly == startOfDay(date)
      nextDay == dateOnly + MsPerDay
  IN CHOOSE verdict \in
       { VerdictOn(resolved, dateOnly, shiftStartTime, shiftEndTime) :
           resolved \in {resolveUnavailability(rules, exceptions, employeeId, dateOnly,
                                               startOfDay(nextDay - 1))} } : TRUE

\* stored rows for the checker: 2026-02-03 is a Tuesday
BlockRuleRow(days, s, e) ==
  [employeeId |-> "e1", byweekday |-> days, allDay |-> FALSE,
   startTimeLocal |-> s, endTimeLocal |-> e,
   effectiveFrom |-> Null, effectiveTo |-> Null, status |-> "ACTIVE"]

BlockExceptionRow(day, type, allDay, s, e) ==
  [employeeId |-> "e1", dateLocal |-> parseDate(Feb(day)), type |-> type,
   allDay |-> allDay, startTimeLocal |-> s, endTimeLocal |-> e]

BlockRuleTables ==
  { <<>>,
    <<BlockRuleRow({2}, T("0","9","3","0"), T("0","9","4","5"))>>,
    <<BlockRuleRow({2, 3}, T("0","9","3","0"), T("0","9","4","5")),
      BlockRuleRow({2}, T("1","0","0","0"), T("1","1","0","0"))>>,
    <<BlockRuleRow({2}, T("2","2","0","0"), T("0","6","0","0"))>> }

BlockExceptionTables ==
  { <<>>,
    <<BlockExceptionRow(3, "REMOVE", TRUE, Null, Null)>>,
    <<BlockExceptionRow(4, "ADD", FALSE, T("0","9","0","0"), T("0","9","3","0"))>> }

\* the clock times a drawn shift starts and ends at
BlockTimes ==
  { T("0","5","0","0"), T("0","9","0","0"), T("0","9","3","0"), T("0","9","4","0"),
    T("0","9","4","5"), T("1","0","0","0") }

BlockInit ==
  /\ rulesTable \in BlockRuleTables
  /\ exceptionsTable \in BlockExceptionTables
  /\ response = Idle
  /\ input = Idle
  /\ output = Idle
  /\ NoRoster

\* one call of the checker, which keeps no state between calls, for a shift
\* of at most MaxShiftDays days that starts on 2026-02-day
CheckUnavailability(day, s, e, span) ==
  LET date == parseLocalTime(T("1","2","0","0"), parseDate(Feb(day)))
      shiftStartTime == parseLocalTime(s, parseDate(Feb(day)))
      shiftEndTime == parseLocalTime(e, parseDate(Feb(day + span)))
  IN /\ output = Idle
     /\ shiftStartTime < shiftEndTime
     /\ input' = [op |-> "checkUnavailability", date |-> date,
                  shiftStartTime |-> shiftStartTime, shiftEndTime |-> shiftEndTime]
     /\ output' = [op |-> "checkUnavailability",
                   result |-> checkUnavailability(rulesTable, exceptionsTable, "e1",
                                                  date, shiftStartTime, shiftEndTime)]
     /\ UNCHANGED <<rulesTable, exceptionsTable, response, roster>>

BlockNext ==
  \E day \in 3..4, s \in BlockTimes, e \in BlockTimes, span \in 0..MaxShiftDays :
    CheckUnavailability(day, s, e, span)

BlockSpec == BlockInit /\ [][BlockNext]_vars

\* ==================================================== the allowlist checker
\* AvailabilityConstraintService.checkAvailability over stored rows.  An
\* EmployeeAvailability row holds its window rows and override rows.
getHours(t) == ((t + TzHours * MsPerHour) % MsPerDay) \div MsPerHour
getMinutes(t) == ((t + TzHours * MsPerHour) % MsPerHour) \div MsPerMinute

\* new Date(y, m, d) of the local calendar fields of an instant
LocalDate(t) == setHours(t, 0, 0, 0, 0)

dayMap == <<"SUNDAY", "MONDAY", "TUESDAY", "WEDNESDAY", "THURSDAY", "FRIDAY", "SATURDAY">>
getDayOfWeek(date) == dayMap[getDay(date) + 1]

parseTime(timeString, date) ==
  setHours(date, SplitTime(timeString)[1], SplitTime(timeString)[2], 0, 0)

timeStringToMinutes(timeString) ==
  SplitTime(timeString)[1] * 60 + SplitTime(timeString)[2]

timeToMinutes(date) == getHours(date) * 60 + getMinutes(date)

SelectRows(rows, Keep(_)) ==
  LET idx == {i \in 1..Len(rows) : Keep(rows[i])}
      nth(k) == CHOOSE i \in idx : Cardinality({j \in idx : j < i}) = k - 1
  IN [k \in 1..Cardinality(idx) |-> rows[nth(k)]]

\* employeeAvailability.findUnique with the overrides of the shift's date
FindAvailability(table, employeeId, companyId, shiftDate) ==
  LET Mine(row) == row.employeeId = employeeId /\ row.companyId = companyId
      OnDate(o) == /\ o.overrideDate >= LocalDate(shiftDate)
                   /\ o.overrideDate < LocalDate(shiftDate) + MsPerDay
      rows == SelectRows(table, Mine)
  IN IF rows = <<>> THEN Null
     ELSE <<[rows[1] EXCEPT !.overrides = SelectRows(rows[1].overrides, OnDate)]>>

\* faulty variant: the start of the effective range is not looked at
NotYetEffectiveIgnored(availability, shiftDate) == FALSE

NotYetEffective(availability, shiftDate) ==
  /\ availability.effectiveFrom # Null
  /\ LocalDate(shiftDate) < LocalDate(availability.effectiveFrom[1])

Expired(availability, shiftDate) ==
  /\ availability.effectiveTo # Null
  /\ LocalDate(shiftDate) > LocalDate(availability.effectiveTo[1])

\* faulty variant: the override is compared with the start of the shift only
OverrideCoversStart(override, shiftDate, shiftStartTime, shiftEndTime) ==
  /\ shiftStartTime >= parseTime(override.startTime, shiftDate)
  /\ shiftStartTime <= parseTime(override.endTime, shiftDate)

OverrideCovers(override, shiftDate, shiftStartTime, shiftEndTime) ==
  /\ shiftStartTime >= parseTime(override.startTime, shiftDate)
  /\ shiftEndTime <= parseTime(override.endTime, shiftDate)

WindowCovers(window, shiftStartTime, shiftEndTime) ==
  /\ timeToMinutes(shiftStartTime) >= timeStringToMinutes(window.startTime)
  /\ timeToMinutes(shiftEndTime) <= timeStringToMinutes(window.endTime)

Verdict(allowed, reason) ==
  [allowed |-> allowed, blocked |-> ~allowed, requiresOverride |-> ~allowed,
   reason |-> reason]

checkAvailability(table, employeeId, companyId, shiftDate, shiftStartTime, shiftEndTime) ==
  LET found == FindAvailability(table, employeeId, companyId, shiftDate)
      availability == found[1]
      override == availability.overrides[1]
      OfDay(w) == w.dayOfWeek = getDayOfWeek(shiftDate)
      dayWindows == SelectRows(availability.windows, OfDay)
  IN IF found = Null THEN Verdict(TRUE, "")
     ELSE IF NotYetEffective(availability, shiftDate)
     THEN Verdict(TRUE, "Availability not yet effective")
     ELSE IF Expired(availability, shiftDate)
     THEN Verdict(TRUE, "Availability has expired")
     ELSE IF Len(availability.overrides) > 0
     THEN IF override.startTime = Null \/ override.endTime = Null
          THEN Verdict(FALSE, "Override")
          ELSE IF OverrideCovers(override, shiftDate, shiftStartTime, shiftEndTime)
               THEN Verdict(TRUE, "")
               ELSE Verdict(FALSE, "Override")
     ELSE IF Len(dayWindows) = 0
     THEN Verdict(FALSE, "No availability defined for this day")
     ELSE IF \E i \in 1..Len(dayWindows) :
               WindowCovers(dayWindows[i], shiftStartTime, shiftEndTime)
     THEN Verdict(TRUE, "")
     ELSE Verdict(FALSE, "Shift falls outside defined availability windows")

\* ----- stored availability and drawn shifts: 2026-02-02 is a Monday
AvailabilityWindow(day, s, e) == [dayOfWeek |-> day, startTime |-> s, endTime |-> e]

AvailabilityOverride(day, s, e) ==
  [overrideDate |-> NewDateFromString(Feb(day)), startTime |-> s, endTime |-> e,
   reason |-> "leave"]

WindowLists ==
  { <<>>,
    <<AvailabilityWindow("MONDAY", T("0","8","0","0"), T("0","9","3","0"))>>,
    <<AvailabilityWindow("MONDAY", T("0","8","0","0"), T("0","9","3","0")),
      AvailabilityWindow("TUESDAY", T("0","8","0","0"), T("0","9","3","0")),
      AvailabilityWindow("MONDAY", T("1","0","0","0"), T("1","2","0","0"))>> }

OverrideLists ==
  { <<>>,
    <<AvailabilityOverride(2, Null, Null)>>,
    <<AvailabilityOverride(2, T("0","9","0","0"), T("1","1","0","0"))>>,
    <<AvailabilityOverride(3, T("0","9","0","0"), Null)>> }

EffectiveRanges ==
  { <<Null, Null>>,
    <<<<NewDateFromString(Feb(3))>>, Null>>,
    <<Null, <<NewDateFromString(Feb(2))>>>> }

AvailabilityTables ==
  {<<>>} \cup
  { <<[employeeId |-> "e1", companyId |-> "c1",
       effectiveFrom |-> r[1], effectiveTo |-> r[2],
       windows |-> ws, overrides |-> os]>> :
    r \in EffectiveRanges, ws \in WindowLists, os \in OverrideLists }

ShiftTimes ==
  { T("0","8","3","0"), T("0","9","0","0"), T("0","9","1","5"),
    T("1","0","0","0"), T("1","1","0","0") }

AvailInit ==
  /\ rulesTable = <<>>
  /\ exceptionsTable = <<>>
  /\ response = Idle
  /\ input = Idle
  /\ output = Idle
  /\ availabilityTable \in AvailabilityTables
  /\ shiftTable = <<>>
  /\ sessionTable = <<>>
  /\ calls = <<>>

\* one call of the checker, with the arguments ShiftsService.create passes:
\* shiftDate is the local date of startAt, and startAt < endAt
CheckAvailability(day, s, e, span) ==
  LET startAt == parseLocalTime(s, parseDate(Feb(day)))
      endAt == parseLocalTime(e, parseDate(Feb(day + span)))
      shiftDate == LocalDate(startAt)
  IN /\ startAt < endAt
     /\ input' = [op |-> "checkAvailability", shiftDate |-> shiftDate,
                  shiftStartTime |-> startAt, shiftEndTime |-> endAt]
     /\ output' = [op |-> "checkAvailability",
                   result |-> checkAvailability(availabilityTable, "e1", "c1",
                                                shiftDate, startAt, endAt)]
     /\ UNCHANGED <<rulesTable, exceptionsTable, response, roster>>

AvailNext ==
  \E day \in 2..3, s \in ShiftTimes, e \in ShiftTimes, span \in 0..MaxShiftDays :
    CheckAvailability(day, s, e, span)

AvailSpec == AvailInit /\ [][AvailNext]_vars

\* ============================================================ ShiftsService
\* The rows the service looks references up in: one company "c1" with two
\* employee profiles, one department and one active work location that has
\* no coordinates.
EmployeeProfiles == {"e1", "e2"}
Departments == {"d1"}
WorkLocations == {"w1"}

\* value ?? fallback.  An absent number or instant is held as Null and a
\* present one as <<value>>; an absent id or enum name is the empty string.
Coalesce(value, fallback) == IF value = Null THEN fallback ELSE value[1]
None == ""
CoalesceName(value, fallback) == IF value = None THEN fallback ELSE value

ShiftError(status, error) == [status |-> status, error |-> error]

\* faulty variant: shifts that only touch are taken as overlapping
OverlapsShiftClosed(row, startAt, endAt) ==
  row.startAt <= endAt /\ row.endAt >= startAt

\* where: { startAt: { lt: endAt }, endAt: { gt: startAt } }
OverlapsShift(row, startAt, endAt) ==
  row.startAt < endAt /\ row.endAt > startAt

\* faulty variant: an updated shift is compared with the other shifts of the
\* employee who holds it now, not of the employee it is moved to
FindOverlappingShiftOfHolder(table, employeeId, exceptId, startAt, endAt) ==
  LET held == {i \in 1..Len(table) : table[i].id = exceptId}
      holder == IF held = {} THEN employeeId
                ELSE table[CHOOSE i \in held : TRUE].employeeId
      Hit(row) == /\ row.employeeId = holder
                  /\ row.id # exceptId
                  /\ OverlapsShift(row, startAt, endAt)
  IN SelectRows(table, Hit)

\* shift.findFirst for the employee, leaving out the row with id exceptId
FindOverlappingShift(table, employeeId, exceptId, startAt, endAt) ==
  LET Hit(row) == /\ row.employeeId = employeeId
                  /\ row.id # exceptId
                  /\ OverlapsShift(row, startAt, endAt)
  IN SelectRows(table, Hit)

\* the validations of times and breaks, shared by the three operations
TimeError(startAt, endAt, paidBreakMinutes, unpaidBreakMinutes) ==
  IF startAt >= endAt THEN ShiftError(400, "startAt must be before endAt")
  ELSE IF paidBreakMinutes < 0 \/ unpaidBreakMinutes < 0
  THEN ShiftError(400, "break minutes below zero")
  ELSE IF (paidBreakMinutes + unpaidBreakMinutes) * MsPerMinute > endAt - startAt
  THEN ShiftError(400, "break minutes exceed shift duration")
  ELSE Null

\* the validations ShiftsService.create makes, in its order; Null if none fails
CreateError(shifts, availabilities, companyId, dto) ==
  LET paid == Coalesce(dto.paidBreakMinutes, 0)
      unpaid == Coalesce(dto.unpaidBreakMinutes, 0)
      shiftDate == LocalDate(dto.startAt)
  IN IF TimeError(dto.startAt, dto.endAt, paid, unpaid) # Null
     THEN TimeError(dto.startAt, dto.endAt, paid, unpaid)
     ELSE IF dto.employeeId \notin EmployeeProfiles
     THEN ShiftError(404, "employee not found")
     ELSE IF dto.departmentId = None \/ dto.departmentId \notin Departments
     THEN ShiftError(400, "department is required")
     ELSE IF dto.workLocationId # None /\ dto.workLocationId \notin WorkLocations
     THEN ShiftError(404, "work location not found")
     ELSE IF FindOverlappingShift(shifts, dto.employeeId, 0, dto.startAt, dto.endAt) # <<>>
     THEN ShiftError(409, "shift overlaps with existing shift")
     ELSE IF checkAvailability(availabilities, dto.employeeId, companyId,
                               shiftDate, dto.startAt, dto.endAt).blocked
     THEN ShiftError(400, "shift falls outside employee availability")
     ELSE Null

\* the row shift.create stores; ids are given in order of creation
NewShift(id, companyId, dto) ==
  [id |-> id, employeeId |-> dto.employeeId, companyId |-> companyId,
   departmentId |-> dto.departmentId, workLocationId |-> dto.workLocationId,
   startAt |-> dto.startAt, endAt |-> dto.endAt,
   type |-> CoalesceName(dto.type, "OTHER"), status |-> "PUBLISHED",
   paidBreakMinutes |-> Coalesce(dto.paidBreakMinutes, 0),
   unpaidBreakMinutes |-> Coalesce(dto.unpaidBreakMinutes, 0)]

create(companyId, dto) ==
  /\ CreateError(shiftTable, availabilityTable, companyId, dto) = Null
       => Len(shiftTable) < MaxShifts
  /\ LET error == CreateError(shiftTable, availabilityTable, companyId, dto)
     IN IF error # Null
        THEN /\ response' = [op |-> "create"] @@ error
             /\ UNCHANGED shiftTable
        ELSE /\ shiftTable' = Append(shiftTable,
                                     NewShift(Len(shiftTable) + 1, companyId, dto))
             /\ response' = [op |-> "create", status |-> 201, error |-> ""]
  /\ input' = [op |-> "create", dto |-> dto]
  /\ UNCHANGED <<rulesTable, exceptionsTable, output,
                 availabilityTable, sessionTable, calls>>

\* shift.findFirst({ where: { id, companyId } })
FindShift(table, id, companyId) ==
  LET Mine(row) == row.id = id /\ row.companyId = companyId
  IN SelectRows(table, Mine)

\* faulty variant: only sessions still open are included with a shift
OpenSessionsOfShift(sessions, id) ==
  LET Of(s) == s.shiftId = id /\ s.actualEndAt = Null
  IN SelectRows(sessions, Of)

\* the attendanceSessions included with a shift
SessionsOfShift(sessions, id) ==
  LET Of(s) == s.shiftId = id
  IN SelectRows(sessions, Of)

\* mergedData of ShiftsService.update
MergedData(existingShift, dto) ==
  [employeeId |-> CoalesceName(dto.employeeId, existingShift.employeeId),
   workLocationId |-> CoalesceName(dto.workLocationId, existingShift.workLocationId),
   departmentId |-> CoalesceName(dto.departmentId, existingShift.departmentId),
   startAt |-> Coalesce(dto.startAt, existingShift.startAt),
   endAt |-> Coalesce(dto.endAt, existingShift.endAt),
   type |-> CoalesceName(dto.type, existingShift.type),
   paidBreakMinutes |-> Coalesce(dto.paidBreakMinutes, existingShift.paidBreakMinutes),
   unpaidBreakMinutes |-> Coalesce(dto.unpaidBreakMinutes, existingShift.unpaidBreakMinutes)]

\* the validations ShiftsService.update makes, in its order; Null if none fails
UpdateError(shifts, sessions, id, companyId, dto) ==
  LET found == FindShift(shifts, id, companyId)
      mergedData == MergedData(found[1], dto)
  IN IF found = <<>> THEN ShiftError(404, "shift not found")
     ELSE IF Len(SessionsOfShift(sessions, id)) > 0
     THEN ShiftError(409, "shift is locked because attendance has started")
     ELSE IF TimeError(mergedData.startAt, mergedData.endAt,
                       mergedData.paidBreakMinutes, mergedData.unpaidBreakMinutes) # Null
     THEN TimeError(mergedData.startAt, mergedData.endAt,
                    mergedData.paidBreakMinutes, mergedData.unpaidBreakMinutes)
     ELSE IF mergedData.employeeId \notin EmployeeProfiles
     THEN ShiftError(404, "employee not found")
     ELSE IF dto.departmentId # None /\ mergedData.departmentId \notin Departments
     THEN ShiftError(400, "department is required")
     ELSE IF mergedData.workLocationId # None
             /\ mergedData.workLocationId \notin WorkLocations
     THEN ShiftError(404, "work location not found")
     ELSE IF FindOverlappingShift(shifts, mergedData.employeeId, id,
                                  mergedData.startAt, mergedData.endAt) # <<>>
     THEN ShiftError(409, "shift overlaps with existing shift")
     ELSE Null

update(id, companyId, dto) ==
  /\ LET error == UpdateError(shiftTable, sessionTable, id, companyId, dto)
         at == CHOOSE i \in 1..Len(shiftTable) : shiftTable[i].id = id
     IN IF error # Null
        THEN /\ response' = [op |-> "update"] @@ error
             /\ UNCHANGED shiftTable
        ELSE /\ shiftTable' =
                  [shiftTable EXCEPT ![at] =
                     MergedData(shiftTable[at], dto) @@
                       [id |-> id, companyId |-> companyId,
                        status |-> shiftTable[at].status]]
             /\ response' = [op |-> "update", status |-> 200, error |-> ""]
  /\ input' = [op |-> "update", id |-> id, dto |-> dto]
  /\ UNCHANGED <<rulesTable, exceptionsTable, output,
                 availabilityTable, sessionTable, calls>>

cancel(id, companyId) ==
  /\ LET found == FindShift(shiftTable, id, companyId)
         at == CHOOSE i \in 1..Len(shiftTable) : shiftTable[i].id = id
     IN IF found = <<>>
        THEN /\ response' = [op |-> "cancel", status |-> 404, error |-> "shift not found"]
             /\ UNCHANGED shiftTable
        ELSE /\ shiftTable' = [shiftTable EXCEPT ![at].status = "CANCELLED"]
             /\ response' = [op |-> "cancel", status |-> 200, error |-> ""]
  /\ input' = [op |-> "cancel", id |-> id]
  /\ UNCHANGED <<rulesTable, exceptionsTable, output,
                 availabilityTable, sessionTable, calls>>

\* the validations ShiftsService.bulkCreate makes over the whole batch, in
\* its order; Null if none fails
BulkError(table, companyId, shifts) ==
  LET n == Len(shifts)
      Paid(i) == Coalesce(shifts[i].paidBreakMinutes, 0)
      Unpaid(i) == Coalesce(shifts[i].unpaidBreakMinutes, 0)
      departmentIds == {shifts[i].departmentId : i \in 1..n} \ {None}
  IN IF n = 0 THEN ShiftError(400, "shifts array cannot be empty")
     ELSE IF \E i \in 1..n : shifts[i].employeeId \notin EmployeeProfiles
     THEN ShiftError(404, "employee not found")
     ELSE IF \/ departmentIds = {}
             \/ \E i \in 1..n : \/ shifts[i].departmentId = None
                                 \/ shifts[i].departmentId \notin Departments
     THEN ShiftError(400, "department is required")
     ELSE IF \E i \in 1..n : /\ shifts[i].workLocationId # None
                              /\ shifts[i].workLocationId \notin WorkLocations
     THEN ShiftError(404, "work location not found")
     ELSE IF \E i \in 1..n :
               TimeError(shifts[i].startAt, shifts[i].endAt, Paid(i), Unpaid(i)) # Null
     THEN LET i == CHOOSE k \in 1..n :
                     /\ TimeError(shifts[k].startAt, shifts[k].endAt,
                                  Paid(k), Unpaid(k)) # Null
                     /\ \A j \in 1..(k - 1) :
                          TimeError(shifts[j].startAt, shifts[j].endAt,
                                    Paid(j), Unpaid(j)) = Null
          IN TimeError(shifts[i].startAt, shifts[i].endAt, Paid(i), Unpaid(i))
     ELSE IF \E i \in 1..n :
               \/ \E j \in (i + 1)..n :
                    /\ shifts[i].employeeId = shifts[j].employeeId
                    /\ shifts[i].startAt < shifts[j].endAt
                    /\ shifts[i].endAt > shifts[j].startAt
               \/ FindOverlappingShift(table, shifts[i].employeeId, 0,
                                       shifts[i].startAt, shifts[i].endAt) # <<>>
     THEN ShiftError(409, "shift overlaps")
     ELSE Null

\* faulty variant: each shift of the batch is validated and stored in turn, so
\* the shifts ahead of a rejected one stay stored
RECURSIVE CreateInTurn(_, _, _)
CreateInTurn(table, companyId, shifts) ==
  IF shifts = <<>> THEN table
  ELSE IF BulkError(table, companyId, <<Head(shifts)>>) # Null THEN table
  ELSE CreateInTurn(Append(table, NewShift(Len(table) + 1, companyId, Head(shifts))),
                    companyId, Tail(shifts))

\* the rows after prisma.$transaction(shifts.map(shift.create)), which runs
\* once every validation has passed
RECURSIVE CreateAll(_, _, _)
CreateAll(table, companyId, shifts) ==
  IF shifts = <<>> THEN table
  ELSE CreateAll(Append(table, NewShift(Len(table) + 1, companyId, Head(shifts))),
                 companyId, Tail(shifts))

\* the table after the request: untouched unless the whole batch is valid
BulkStored(table, companyId, shifts) ==
  IF BulkError(table, companyId, shifts) # Null THEN table
  ELSE CreateAll(table, companyId, shifts)

bulkCreate(companyId, shifts) ==
  /\ BulkError(shiftTable, companyId, shifts) = Null
       => Len(shiftTable) + Len(shifts) <= MaxShifts
  /\ LET error == BulkError(shiftTable, companyId, shifts)
     IN /\ shiftTable' = BulkStored(shiftTable, companyId, shifts)
        /\ response' = IF error # Null THEN [op |-> "bulkCreate"] @@ error
                       ELSE [op |-> "bulkCreate", status |-> 201, error |-> ""]
  /\ input' = [op |-> "bulkCreate", shifts |-> shifts]
  /\ UNCHANGED <<rulesTable, exceptionsTable, output,
                 availabilityTable, sessionTable, calls>>

\* ----- the requests drawn for the shift operations, on Monday 2026-02-02
At(day, timeString) == parseLocalTime(timeString, parseDate(Feb(day)))

ShiftDto(employeeId, departmentId, workLocationId, s, e, paid) ==
  [employeeId |-> employeeId, departmentId |-> departmentId,
   workLocationId |-> workLocationId, startAt |-> At(2, s), endAt |-> At(2, e),
   paidBreakMinutes |-> paid, unpaidBreakMinutes |-> Null, type |-> None]

Morning == <<T("0","9","0","0"), T("1","2","0","0")>>
Afternoon == <<T("1","2","0","0"), T("1","5","0","0")>>
LongMorning == <<T("0","9","0","0"), T("1","2","0","1")>>

CreateDtos ==
  { ShiftDto("e1", "d1", None, i[1], i[2], Null) : i \in {Morning, Afternoon, LongMorning} }
  \cup { ShiftDto("e2", "d1", "w1", i[1], i[2], <<30>>) : i \in {Morning, Afternoon} }
  \cup { ShiftDto("e1", "d1", None, Afternoon[2], Morning[1], Null),
         ShiftDto("e1", "d1", None, Morning[1], Morning[2], <<200>>),
         ShiftDto("e9", "d1", None, Morning[1], Morning[2], Null),
         ShiftDto("e1", None, None, Morning[1], Morning[2], Null),
         ShiftDto("e1", "d9", None, Morning[1], Morning[2], Null),
         ShiftDto("e1", "d1", "w9", Morning[1], Morning[2], Null) }

NoChange ==
  [employeeId |-> None, departmentId |-> None, workLocationId |-> None,
   startAt |-> Null, endAt |-> Null, paidBreakMinutes |-> Null,
   unpaidBreakMinutes |-> Null, type |-> None]

UpdateDtos ==
  { [NoChange EXCEPT !.endAt = <<At(2, LongMorning[2])>>],
    [NoChange EXCEPT !.startAt = <<At(2, Afternoon[1])>>, !.endAt = <<At(2, Afternoon[2])>>],
    [NoChange EXCEPT !.employeeId = "e2"],
    [NoChange EXCEPT !.employeeId = "e9"],
    [NoChange EXCEPT !.endAt = <<At(2, Morning[1])>>],
    [NoChange EXCEPT !.departmentId = "d9", !.workLocationId = "w9"],
    [NoChange EXCEPT !.paidBreakMinutes = <<200>>, !.type = "DAY"] }

BulkDtos ==
  { ShiftDto("e1", "d1", None, Morning[1], Morning[2], Null),
    ShiftDto("e1", "d1", None, Afternoon[1], Afternoon[2], Null),
    ShiftDto("e1", "d1", None, LongMorning[1], LongMorning[2], Null),
    ShiftDto("e2", "d1", "w1", Morning[1], Morning[2], <<30>>),
    ShiftDto("e9", "d1", None, Morning[1], Morning[2], Null),
    ShiftDto("e1", "d1", None, Afternoon[2], Morning[1], Null) }

Batches == SeqsUpTo(BulkDtos, MaxBatch)

ShiftIds == 1..(MaxShifts + 1)

\* the availability stored for the scheduled employees: none, or a
\* definition of e1 with the window Monday 09:00-12:01
ShiftAvailabilityTables ==
  { <<>>,
    <<[employeeId |-> "e1", companyId |-> "c1",
       effectiveFrom |-> Null, effectiveTo |-> Null,
       windows |-> <<AvailabilityWindow("MONDAY", LongMorning[1], LongMorning[2])>>,
       overrides |-> <<>>]>> }

ShiftInit ==
  /\ rulesTable = <<>>
  /\ exceptionsTable = <<>>
  /\ response = Idle
  /\ input = Idle
  /\ output = Idle
  /\ availabilityTable \in ShiftAvailabilityTables
  /\ shiftTable = <<>>
  /\ sessionTable = <<>>
  /\ calls = <<>>

ShiftNext ==
  \/ \E dto \in CreateDtos : create("c1", dto)
  \/ \E id \in ShiftIds, dto \in UpdateDtos : update(id, "c1", dto)

ShiftSpec == ShiftInit /\ [][ShiftNext]_vars

\* bulkCreate requests alone, from the same initial tables
BulkNext == \E shifts \in Batches : bulkCreate("c1", shifts)

BulkSpec == ShiftInit /\ [][BulkNext]_vars

\* ======================================================== AttendanceService
\* checkIn runs as a chain of awaited queries; each call in flight is a record
\* in calls that holds what the call has read so far and the step it is at.
\* Steps of different calls interleave at the awaits.
EarlyCheckInMinutes == 30

\* employeeProfile.findFirst({ userId, companyId })
ProfileOfUser(userId) == IF userId = "u1" THEN "e1" ELSE IF userId = "u2" THEN "e2" ELSE None

\* the latest instant any request has read from the clock
Latest ==
  LET times == {calls[i].now : i \in 1..Len(calls)}
                 \cup {sessionTable[i].actualEndAt[1] :
                         i \in {j \in 1..Len(sessionTable) :
                                  sessionTable[j].actualEndAt # Null}}
  IN IF times = {} THEN 0 ELSE CHOOSE t \in times : \A u \in times : u <= t

SetCall(c, call) == [calls EXCEPT ![c] = call]

\* the profile and company lookups and now = new Date()
checkInBegin(userId, now) ==
  /\ Len(calls) < MaxCalls
  /\ now >= Latest
  /\ calls' = Append(calls,
                     IF ProfileOfUser(userId) = None
                     THEN [userId |-> userId, employeeId |-> None, now |-> now,
                           pc |-> "done", status |-> 404, shiftId |-> 0, shiftStartAt |-> 0]
                     ELSE [userId |-> userId, employeeId |-> ProfileOfUser(userId),
                           now |-> now, pc |-> "findShift", status |-> 0,
                           shiftId |-> 0, shiftStartAt |-> 0])
  /\ UNCHANGED <<rulesTable, exceptionsTable, response, input, output,
                 availabilityTable, shiftTable, sessionTable>>

\* shift.findFirst for the shift around now, latest start first; the work
\* locations hold no coordinates, so no distance is measured
checkInFindShift(c) ==
  /\ c \in 1..Len(calls) /\ calls[c].pc = "findShift"
  /\ LET call == calls[c]
         Active(row) == /\ row.employeeId = call.employeeId
                        /\ row.startAt <= call.now + EarlyCheckInMinutes * MsPerMinute
                        /\ row.endAt >= call.now
         found == SelectRows(shiftTable, Active)
         ordered == SortByKey(found, [i \in 1..Len(found) |-> 0 - found[i].startAt])
     IN calls' = IF found = <<>>
                 THEN SetCall(c, [call EXCEPT !.pc = "done", !.status = 403])
                 ELSE SetCall(c, [call EXCEPT !.pc = "findActiveSession",
                                              !.shiftId = ordered[1].id,
                                              !.shiftStartAt = ordered[1].startAt])
  /\ UNCHANGED <<rulesTable, exceptionsTable, response, input, output,
                 availabilityTable, shiftTable, sessionTable>>

\* attendanceSession.findFirst({ employeeId, actualEndAt: null })
ActiveSessions(sessions, employeeId) ==
  LET Open(s) == s.employeeId = employeeId /\ s.actualEndAt = Null
  IN SelectRows(sessions, Open)

checkInFindActiveSession(c) ==
  /\ c \in 1..Len(calls) /\ calls[c].pc = "findActiveSession"
  /\ calls' = IF ActiveSessions(sessionTable, calls[c].employeeId) # <<>>
              THEN SetCall(c, [calls[c] EXCEPT !.pc = "done", !.status = 409])
              ELSE SetCall(c, [calls[c] EXCEPT !.pc = "createSession"])
  /\ UNCHANGED <<rulesTable, exceptionsTable, response, input, output,
                 availabilityTable, shiftTable, sessionTable>>

\* attendanceSession.create, then the CHECK_IN event and its snapshot
checkInCreateSession(c) ==
  /\ c \in 1..Len(calls) /\ calls[c].pc = "createSession"
  /\ LET call == calls[c]
     IN sessionTable' =
          Append(sessionTable,
                 [id |-> Len(sessionTable) + 1, employeeId |-> call.employeeId,
                  shiftId |-> call.shiftId, actualStartAt |-> call.now,
                  actualEndAt |-> Null,
                  effectiveStartAt |-> IF call.now > call.shiftStartAt
                                       THEN call.now ELSE call.shiftStartAt,
                  wasEarlyCheckIn |-> call.now < call.shiftStartAt,
                  totalWorkedMinutes |-> Null,
                  events |-> <<[type |-> "CHECK_IN", createdAt |-> call.now]>>])
  /\ calls' = SetCall(c, [calls[c] EXCEPT !.pc = "done", !.status = 201])
  /\ UNCHANGED <<rulesTable, exceptionsTable, response, input, output,
                 availabilityTable, shiftTable>>

\* session.events ordered by createdAt ascending
EventsAscending(events) ==
  SortByKey(events, [i \in 1..Len(events) |-> events[i].createdAt])

\* faulty variant: the oldest event is taken for the last one
FirstEventType(events) ==
  IF events = <<>> THEN None ELSE EventsAscending(events)[1].type

\* events ordered by createdAt descending, take 1: the type of the last
\* event, None when the session has no event
LastEventType(events) ==
  IF events = <<>> THEN None ELSE EventsAscending(events)[Len(events)].type

\* Math.round(ms / (1000 * 60))
RoundMinutes(ms) == (2 * ms + MsPerMinute) \div (2 * MsPerMinute)

\* the loop of checkOut over the events: breakInTime is Null or <<instant>>
RECURSIVE BreakLoop(_, _, _, _)
BreakLoop(events, breakInTime, actualBreakMinutes, now) ==
  IF events = <<>>
  THEN IF breakInTime # Null
       THEN actualBreakMinutes + RoundMinutes(now - breakInTime[1])
       ELSE actualBreakMinutes
  ELSE LET event == Head(events)
       IN IF event.type = "BREAK_IN"
          THEN BreakLoop(Tail(events), <<event.createdAt>>, actualBreakMinutes, now)
          ELSE IF event.type = "BREAK_OUT" /\ breakInTime # Null
          THEN BreakLoop(Tail(events), Null,
                         actualBreakMinutes
                           + RoundMinutes(event.createdAt - breakInTime[1]), now)
          ELSE BreakLoop(Tail(events), breakInTime, actualBreakMinutes, now)

Max(a, b) == IF a > b THEN a ELSE b

\* totalWorkedMinutes = effectiveDurationMinutes - unpaidDeduction
TotalWorkedMinutes(session, shift, now) ==
  LET actualBreakMinutes == BreakLoop(EventsAscending(session.events), Null, 0, now)
      unpaidDeduction == Max(shift.unpaidBreakMinutes,
                             Max(0, actualBreakMinutes - shift.paidBreakMinutes))
  IN RoundMinutes(now - session.effectiveStartAt) - unpaidDeduction

\* the row index of the active session found for the employee
ActiveAt(employeeId) ==
  CHOOSE i \in 1..Len(sessionTable) :
    sessionTable[i].id = ActiveSessions(sessionTable, employeeId)[1].id

\* breakIn and breakOut: the active session, the test on its last event,
\* then attendanceEvent.create
breakIn(userId, now) ==
  /\ now >= Latest
  /\ LET employeeId == ProfileOfUser(userId)
         at == ActiveAt(employeeId)
     IN IF employeeId = None \/ ActiveSessions(sessionTable, employeeId) = <<>>
        THEN /\ response' = [op |-> "breakIn", status |-> 404, error |-> "not found"]
             /\ UNCHANGED sessionTable
        ELSE IF LastEventType(sessionTable[at].events) = "BREAK_IN"
        THEN /\ response' = [op |-> "breakIn", status |-> 400,
                             error |-> "break-in already recorded"]
             /\ UNCHANGED sessionTable
        ELSE /\ sessionTable' =
                  [sessionTable EXCEPT ![at].events =
                     Append(@, [type |-> "BREAK_IN", createdAt |-> now])]
             /\ response' = [op |-> "breakIn", status |-> 201, error |-> ""]
  /\ input' = [op |-> "breakIn", userId |-> userId, now |-> now]
  /\ UNCHANGED <<rulesTable, exceptionsTable, output,
                 availabilityTable, shiftTable, calls>>

breakOut(userId, now) ==
  /\ now >= Latest
  /\ LET employeeId == ProfileOfUser(userId)
         at == ActiveAt(employeeId)
     IN IF employeeId = None \/ ActiveSessions(sessionTable, employeeId) = <<>>
        THEN /\ response' = [op |-> "breakOut", status |-> 404, error |-> "not found"]
             /\ UNCHANGED sessionTable
        ELSE IF LastEventType(sessionTable[at].events) # "BREAK_IN"
        THEN /\ response' = [op |-> "breakOut", status |-> 400,
                             error |-> "no active break found"]
             /\ UNCHANGED sessionTable
        ELSE /\ sessionTable' =
                  [sessionTable EXCEPT ![at].events =
                     Append(@, [type |-> "BREAK_OUT", createdAt |-> now])]
             /\ response' = [op |-> "breakOut", status |-> 201, error |-> ""]
  /\ input' = [op |-> "breakOut", userId |-> userId, now |-> now]
  /\ UNCHANGED <<rulesTable, exceptionsTable, output,
                 availabilityTable, shiftTable, calls>>

\* checkOut, taken in one step: the active session of the employee, the test
\* on its last event, the worked minutes, the end times and the CHECK_OUT
\* event.  No summary is required of the employees here.
checkOut(userId, now) ==
  /\ now >= Latest
  /\ LET employeeId == ProfileOfUser(userId)
         at == ActiveAt(employeeId)
         session == sessionTable[at]
         shift == FindShift(shiftTable, session.shiftId, "c1")[1]
     IN IF employeeId = None \/ ActiveSessions(sessionTable, employeeId) = <<>>
        THEN /\ response' = [op |-> "checkOut", status |-> 404, error |-> "not found"]
             /\ UNCHANGED sessionTable
        ELSE IF LastEventType(session.events) = "BREAK_IN"
        THEN /\ response' = [op |-> "checkOut", status |-> 400,
                             error |-> "you must end your break before checking out"]
             /\ UNCHANGED sessionTable
        ELSE /\ sessionTable' =
                  [sessionTable EXCEPT
                     ![at].actualEndAt = <<now>>,
                     ![at].totalWorkedMinutes = <<TotalWorkedMinutes(session, shift, now)>>,
                     ![at].events = Append(@, [type |-> "CHECK_OUT", createdAt |-> now])]
             /\ response' = [op |-> "checkOut", status |-> 200, error |-> ""]
  /\ input' = [op |-> "checkOut", userId |-> userId, now |-> now]
  /\ UNCHANGED <<rulesTable, exceptionsTable, output,
                 availabilityTable, shiftTable, calls>>

\* ----- the requests drawn for attendance, on Monday 2026-02-02
Users == {"u1", "u9"}

Clock == { At(2, T("0","8","4","5")), At(2, T("1","0","0","0")),
           At(2, T("1","6","0","0")) }

AttendUpdateDtos ==
  { [NoChange EXCEPT !.endAt = <<At(2, LongMorning[2])>>],
    [NoChange EXCEPT !.employeeId = "e2", !.type = "DAY"] }

\* one published shift of e1, 09:00-12:00, as create stores it
AttendInit ==
  /\ rulesTable = <<>>
  /\ exceptionsTable = <<>>
  /\ response = Idle
  /\ input = Idle
  /\ output = Idle
  /\ availabilityTable = <<>>
  /\ shiftTable = <<NewShift(1, "c1", ShiftDto("e1", "d1", None, Morning[1], Morning[2], Null))>>
  /\ sessionTable = <<>>
  /\ calls = <<>>

AttendNext ==
  \/ \E userId \in Users, now \in Clock : checkInBegin(userId, now)
  \/ \E c \in 1..MaxCalls : checkInFindShift(c)
  \/ \E c \in 1..MaxCalls : checkInFindActiveSession(c)
  \/ \E c \in 1..MaxCalls : checkInCreateSession(c)
  \/ \E userId \in Users, now \in Clock : checkOut(userId, now)
  \/ \E id \in 1..2, dto \in AttendUpdateDtos : update(id, "c1", dto)
  \/ \E id \in 1..2 : cancel(id, "c1")

AttendSpec == AttendInit /\ [][AttendNext]_vars

\* ------------------------------------ the four shift operations, in turn
\* create, bulkCreate, update and cancel requests made one at a time
RosterDtos ==
  { ShiftDto("e1", "d1", None, Morning[1], Morning[2], Null),
    ShiftDto("e2", "d1", "w1", LongMorning[1], LongMorning[2], <<30>>),
    ShiftDto("e2", "d1", None, Morning[1], Morning[2], <<200>>),
    ShiftDto("e1", "d1", None, Afternoon[2], Morning[1], Null) }

RosterBatchDtos ==
  { ShiftDto("e1", "d1", None, Morning[1], Morning[2], Null),
    ShiftDto("e2", "d1", None, LongMorning[1], LongMorning[2], <<30>>),
    ShiftDto("e2", "d1", None, Afternoon[1], Afternoon[2], <<200>>) }

RosterUpdateDtos ==
  { [NoChange EXCEPT !.employeeId = "e2"],
    [NoChange EXCEPT !.employeeId = "e1", !.endAt = <<At(2, LongMorning[2])>>],
    [NoChange EXCEPT !.endAt = <<At(2, Morning[1])>>],
    [NoChange EXCEPT !.unpaidBreakMinutes = <<200>>] }

RosterNext ==
  \/ \E dto \in RosterDtos : create("c1", dto)
  \/ \E shifts \in SeqsUpTo(RosterBatchDtos, MaxBatch) : bulkCreate("c1", shifts)
  \/ \E id \in ShiftIds, dto \in RosterUpdateDtos : update(id, "c1", dto)
  \/ \E id \in ShiftIds : cancel(id, "c1")

RosterSpec == ShiftInit /\ [][RosterNext]_vars

\* ============================================ ShiftsService.create in steps
\* create awaits its queries one after another.  A call in flight is a record
\* in calls; the calls take their steps in any order.  The availability rows
\* do not change here, so the checker's read is taken with the first step.
\* the validations, shift.findFirst for an overlapping shift, checkAvailability
createCheck(companyId, dto) ==
  /\ Len(calls) < MaxCalls
  /\ LET error == CreateError(shiftTable, availabilityTable, companyId, dto)
     IN calls' = Append(calls,
                        IF error # Null
                        THEN [op |-> "create", companyId |-> companyId, dto |-> dto,
                              pc |-> "done", status |-> error.status]
                        ELSE [op |-> "create", companyId |-> companyId, dto |-> dto,
                              pc |-> "store", status |-> 0])
  /\ UNCHANGED <<rulesTable, exceptionsTable, response, input, output,
                 availabilityTable, shiftTable, sessionTable>>

\* shift.create
createStore(c) ==
  /\ c \in 1..Len(calls) /\ calls[c].pc = "store"
  /\ shiftTable' = Append(shiftTable,
                          NewShift(Len(shiftTable) + 1, calls[c].companyId, calls[c].dto))
  /\ calls' = [calls EXCEPT ![c].pc = "done", ![c].status = 201]
  /\ UNCHANGED <<rulesTable, exceptionsTable, response, input, output,
                 availabilityTable, sessionTable>>

RaceNext ==
  \/ \E dto \in CreateDtos : createCheck("c1", dto)
  \/ \E c \in 1..MaxCalls : createStore(c)

RaceSpec == ShiftInit /\ [][RaceNext]_vars

\* ------------------------------- attendance requests made one at a time
\* the instants the requests are made at, on Monday 2026-02-02
BreakClock == { At(2, T("0","8","4","5")), At(2, T("0","8","5","0")),
                At(2, T("0","9","1","0")), At(2, T("0","9","4","0")),
                At(2, T("1","0","3","0")) }

\* the paid and unpaid break minutes assigned to the shift
BreakMinutes == { <<0, 0>>, <<15, 30>> }

\* a request starts when no other is in progress, later than the createdAt
\* of every event stored
InTurn(now) ==
  /\ \A c \in 1..Len(calls) : calls[c].pc = "done"
  /\ \A i \in 1..Len(sessionTable) :
       \A j \in 1..Len(sessionTable[i].events) :
         now > sessionTable[i].events[j].createdAt

\* one published shift of e1, 09:00-12:00, with its assigned breaks
BreakInit ==
  /\ rulesTable = <<>>
  /\ exceptionsTable = <<>>
  /\ response = Idle
  /\ input = Idle
  /\ output = Idle
  /\ availabilityTable = <<>>
  /\ \E minutes \in BreakMinutes :
       shiftTable =
         <<NewShift(1, "c1",
                    [ShiftDto("e1", "d1", None, Morning[1], Morning[2], <<minutes[1]>>)
                       EXCEPT !.unpaidBreakMinutes = <<minutes[2]>>])>>
  /\ sessionTable = <<>>
  /\ calls = <<>>

BreakNext ==
  \/ \E userId \in Users, now \in BreakClock :
       InTurn(now) /\ checkInBegin(userId, now)
  \/ \E c \in 1..MaxCalls : checkInFindShift(c)
  \/ \E c \in 1..MaxCalls : checkInFindActiveSession(c)
  \/ \E c \in 1..MaxCalls : checkInCreateSession(c)
  \/ \E userId \in Users, now \in BreakClock : InTurn(now) /\ breakIn(userId, now)
  \/ \E userId \in Users, now \in BreakClock : InTurn(now) /\ breakOut(userId, now)
  \/ \E userId \in Users, now \in BreakClock : InTurn(now) /\ checkOut(userId, now)

BreakSpec == BreakInit /\ [][BreakNext]_vars

\* ================================================================ properties
\* ----- vocabulary of the properties
Overlaps(a, b) == a.start < b.end /\ a.end > b.start
Touches(a, b) == a.end = b.start \/ b.end = a.start

SortedByStart(ws) == \A i \in 1..(Len(ws) - 1) : ws[i].start <= ws[i + 1].start

\* sorted, and every window starts strictly after the one before it ends
IsMerged(ws) ==
  /\ SortedByStart(ws)
  /\ \A i \in 1..(Len(ws) - 1) : ws[i + 1].start > ws[i].end

\* half-open coverage of an instant by a window list
Covered(t, ws) == \E i \in 1..Len(ws) : ws[i].start <= t /\ t < ws[i].end

\* the instants at which the coverage of the given lists can change
Endpoints(ws) == {ws[i].start : i \in 1..Len(ws)} \cup {ws[i].end : i \in 1..Len(ws)}
Probes(lists) ==
  LET pts == UNION {Endpoints(ws) : ws \in lists}
  IN pts \cup {t - 1 : t \in pts} \cup {t + 1 : t \in pts}

\* wall-clock offset of an "HH:mm" string within its day
TimeOfDay(timeString) ==
  SplitTime(timeString)[1] * MsPerHour + SplitTime(timeString)[2] * MsPerMinute

\* local midnight of 2026-02-k, and its weekday 1=Monday..7=Sunday
\* (2026-02-02 is a Monday)
Midnight(k) == (k - 1) * MsPerDay - TzHours * MsPerHour
IsoWeekday(k) == ((k + 5) % 7) + 1

FullDay(d) == Window(d, d + MsPerDay - 1)

\* ----- the answered query of the service
Answered == response.op = "getUnavailability" /\ response.status = 200

RangeDates ==
  {Midnight(k) : k \in {j \in 1..MaxDay :
      Midnight(j) >= response.from /\ Midnight(j) <= response.to}}

\* the exception rows of the queried employee on date d, in table order
ExceptionsOn(d) ==
  LET Test(e) == e.employeeId = response.employeeId /\ e.dateLocal = d
  IN SelectSeq(exceptionsTable, Test)

\* the windows the loaded rules contribute to date d, in table order
RuleWindowsOn(d) ==
  LET m == ExpandRules(<<>>, FindRules(rulesTable, response.employeeId,
                                       response.from, response.to), d, d)
  IN IF m = <<>> THEN <<>> ELSE m[1].val.windows

\* the ResolvedDay entries returned for date d
EntriesFor(d) == {i \in 1..Len(response.resolved) : response.resolved[i].date = d}

OneEntry(d, ws) ==
  /\ Cardinality(EntriesFor(d)) = 1
  /\ \A i \in EntriesFor(d) : response.resolved[i].windows = ws

OfType(xs, type) == xs[CHOOSE i \in 1..Len(xs) : xs[i].type = type]

Permuted(seq, p) == [i \in 1..Len(seq) |-> seq[p[i]]]

IsOvernight(rule) ==
  /\ ~rule.allDay
  /\ TimeOfDay(rule.endTimeLocal) < TimeOfDay(rule.startTimeLocal)

\* C1: expanding a non-all-day rule whose end time-of-day is earlier than
\* its start time-of-day yields, for every matching date D, exactly the two
\* windows [D at start time, end-of-day of D] and [start-of-day of D+1,
\* D+1 at end time]; the second window ends after it starts.
C1_OvernightSplit ==
  (output.op = "expandWeeklyRule" /\ IsOvernight(input.rule)) =>
    \A i \in 1..Len(output.occurrences) :
      LET D == output.occurrences[i].date
          ws == output.occurrences[i].windows
      IN /\ ws = <<Window(D + TimeOfDay(input.rule.startTimeLocal),
                          D + MsPerDay - 1),
                   Window(D + MsPerDay,
                          D + MsPerDay + TimeOfDay(input.rule.endTimeLocal))>>
         /\ ws[2].end > ws[2].start

\* C2: every ResolvedDay returned by resolveUnavailability carries a merged
\* window list -- sorted ascending by start, no two windows overlapping or
\* touching -- also on dates where several rules contribute and no
\* exception exists.
C2_MergedEveryDay ==
  Answered =>
    \A i \in 1..Len(response.resolved) :
      LET ws == response.resolved[i].windows
      IN /\ SortedByStart(ws)
         /\ \A a, b \in 1..Len(ws) :
              a # b => ~Overlaps(ws[a], ws[b]) /\ ~Touches(ws[a], ws[b])

\* C3: a date with one exception of each kind resolves to
\* merge(subtract(replaceWindows, removeWindows) ++ addWindows), whatever
\* order the three exception rows arrive in.
OneOfEachKind(xs) ==
  Len(xs) = 3 /\ {xs[i].type : i \in 1..3} = {"REPLACE", "REMOVE", "ADD"}

SingleException(xs, type) == Len(xs) = 1 /\ xs[1].type = type

C7_MergeNormalForm ==
  output.op = "mergeWindows" =>
    /\ SortedByStart(output.merged)
    /\ \A a, b \in 1..Len(output.merged) :
         a # b => ~Overlaps(output.merged[a], output.merged[b])
    /\ output.again = output.merged

\* an unsorted list of three whose merge folded two windows into one
C7_Witness ==
  /\ output.op = "mergeWindows"
  /\ Len(input.w) = 3
  /\ input.w[1].start > input.w[2].start
  /\ Len(output.merged) = 2
  /\ output.merged[1].end < output.merged[2].start

\* C8: subtractWindows(w, w) is the empty list, for every list w.
C8_SubtractSelfEmpty ==
  output.op \in {"subtractSelf", "subtractOwn"} => output.out = <<>>

\* C9 as stated: subtractWindows(w, []) equals mergeWindows(w); read here
\* over lists of proper windows (start < end) only.
C9_SubtractNothingIsMerge ==
  (/\ output.op = "subtractNothing"
   /\ \A i \in 1..Len(input.w) : input.w[i].start < input.w[i].end)
    => output.out = mergeWindows(input.w)

\* C9 as amended: subtractWindows(w, []) is w itself, unsorted and unmerged;
\* it equals mergeWindows(w) exactly when w is already sorted with every
\* window starting strictly after the previous one ends.
C9_SubtractNothingIsIdentity ==
  output.op = "subtractNothing" =>
    /\ output.out = input.w
    /\ (output.out = mergeWindows(input.w)) <=> IsMerged(input.w)

C9_Witness ==
  /\ output.op = "subtractNothing"
  /\ Len(input.w) = 2
  /\ input.w[1].start < input.w[1].end
  /\ input.w[2].start < input.w[2].end
  /\ Overlaps(input.w[1], input.w[2])
  /\ output.out # mergeWindows(input.w)

\* C10: expandWeeklyRule yields an occurrence for date d exactly when d is
\* in [from, to], the weekday of d (Monday=1..Sunday=7) is in the rule's
\* weekday set and d is within the inclusive effective bounds, where an
\* absent bound does not restrict; an all-day Monday rule without bounds
\* resolves over 14 days to exactly two days of one full-day window each.
ExpectedDates(rule, from, to) ==
  {Midnight(k) : k \in {j \in 1..MaxDay :
      /\ Midnight(j) >= from /\ Midnight(j) <= to
      /\ IsoWeekday(j) \in rule.byweekday
      /\ (rule.effectiveFrom # Null => Midnight(j) >= rule.effectiveFrom[1])
      /\ (rule.effectiveTo # Null => Midnight(j) <= rule.effectiveTo[1])}}

InvertedQueries == {q \in Queries : parseDate(q[1]) > parseDate(q[2])}

C11_InvertedRangeRejected ==
  [][\A e \in Employees, q \in InvertedQueries :
       getUnavailability(e, q[1], q[2]) =>
         /\ response'.op = "getUnavailability"
         /\ response'.status = 400
         /\ DOMAIN response' = {"op", "status"}
         /\ UNCHANGED <<rulesTable, exceptionsTable>>]_vars

\* an inverted request was answered while rows that cover the swapped range
\* are stored
C11_Witness ==
  /\ InvertedQueries # {}
  /\ response.op = "getUnavailability" /\ response.status = 400
  /\ \E q \in InvertedQueries :
       resolveUnavailability(rulesTable, exceptionsTable, "e1",
                             parseDate(q[2]), parseDate(q[1])) # <<>>

\* C12: checkUnavailability answers blocked (and not allowed) exactly when
\* some window W of the date's resolved day has start < W.end and
\* end > W.start; a date without a resolved day, or with an empty window
\* list, is allowed.  The resolved day is taken from a resolution of the
\* three days around the date.
Checked == output.op = "checkUnavailability"

ResolvedDayWindows(date) ==
  LET d == startOfDay(date)
      days == resolveUnavailability(rulesTable, exceptionsTable, "e1",
                                    d - MsPerDay, d + MsPerDay)
      at == {i \in 1..Len(days) : days[i].date = d}
  IN IF at = {} THEN <<>> ELSE days[CHOOSE i \in at : TRUE].windows

BlockingWindow(w) == input.shiftStartTime < w.end /\ input.shiftEndTime > w.start

AvailChecked == output.op = "checkAvailability"

Definition == availabilityTable[1]

InEffect ==
  /\ availabilityTable # <<>>
  /\ Definition.effectiveFrom # Null =>
       startOfDay(Definition.effectiveFrom[1]) <= input.shiftDate
  /\ Definition.effectiveTo # Null =>
       input.shiftDate <= startOfDay(Definition.effectiveTo[1])

OverridesOfDate ==
  {i \in 1..Len(Definition.overrides) :
     startOfDay(Definition.overrides[i].overrideDate) = input.shiftDate}

\* the recurring windows of the shift date's weekday, as instants of that date
WeekdayName(k) ==
  <<"MONDAY", "TUESDAY", "WEDNESDAY", "THURSDAY", "FRIDAY", "SATURDAY", "SUNDAY">>[k]

WindowsOfDate ==
  LET k == CHOOSE j \in 1..MaxDay : Midnight(j) = input.shiftDate
  IN { Window(input.shiftDate + TimeOfDay(w.startTime),
              input.shiftDate + TimeOfDay(w.endTime)) :
       w \in {Definition.windows[i] : i \in
                 {j \in 1..Len(Definition.windows) :
                    Definition.windows[j].dayOfWeek = WeekdayName(IsoWeekday(k))}} }

\* C13: with a definition in effect and no override for the date, a shift
\* is allowed only if [start, end) lies inside one recurring window of the
\* date's weekday, and a weekday without windows is blocked with the reason
\* "No availability defined for this day".
C13_ContainedInWindow ==
  (AvailChecked /\ InEffect /\ OverridesOfDate = {}) =>
    /\ output.result.allowed =>
         \E w \in WindowsOfDate :
           w.start <= input.shiftStartTime /\ input.shiftEndTime <= w.end
    /\ WindowsOfDate = {} =>
         /\ output.result.blocked
         /\ output.result.reason = "No availability defined for this day"

\* C14: with a definition in effect, an override for the shift's date
\* decides alone: without both times it blocks every shift of the date, with
\* times it allows exactly the shifts with overrideStart <= start and
\* end <= overrideEnd, whatever the recurring windows say.
C14_OverrideDecides ==
  (AvailChecked /\ InEffect /\ OverridesOfDate # {}) =>
    LET o == Definition.overrides[CHOOSE i \in OverridesOfDate : TRUE]
    IN IF o.startTime = Null \/ o.endTime = Null
       THEN output.result.blocked /\ ~output.result.allowed
       ELSE LET inside ==
                  /\ input.shiftDate + TimeOfDay(o.startTime) <= input.shiftStartTime
                  /\ input.shiftEndTime <= input.shiftDate + TimeOfDay(o.endTime)
            IN /\ output.result.allowed <=> inside
               /\ output.result.blocked <=> ~inside

\* the override 09:00-11:00 allows a shift that no recurring window of the
\* weekday contains
C14_Witness ==
  /\ AvailChecked /\ InEffect /\ OverridesOfDate # {}
  /\ output.result.allowed
  /\ WindowsOfDate # {}
  /\ \A w \in WindowsOfDate :
       ~(w.start <= input.shiftStartTime /\ input.shiftEndTime <= w.end)

\* C15: checkAvailability allows whenever the owner has no definition and
\* whenever the shift's date is before effectiveFrom or after effectiveTo;
\* then an all-day override of that date does not block.
C15_NoConstraintOutsideEffect ==
  (AvailChecked /\ ~InEffect) =>
    output.result.allowed /\ ~output.result.blocked

\* allowed before effectiveFrom on a date that has an all-day override
C15_Witness ==
  /\ AvailChecked
  /\ availabilityTable # <<>>
  /\ Definition.effectiveFrom # Null
  /\ input.shiftDate < startOfDay(Definition.effectiveFrom[1])
  /\ \E i \in OverridesOfDate : Definition.overrides[i].startTime = Null
  /\ output.result.allowed

\* ----- vocabulary of the shift properties
Rows(table) == {table[i] : i \in 1..Len(table)}

\* a persisted shift of the employee, other than exceptId, that the interval
\* [startAt, endAt) overlaps
Conflicts(table, employeeId, exceptId, startAt, endAt) ==
  \E row \in Rows(table) :
    /\ row.employeeId = employeeId /\ row.id # exceptId
    /\ row.startAt < endAt /\ row.endAt > startAt

\* the field validations: known references, start before end, breaks within
\* the shift
ValidFields(employeeId, departmentId, workLocationId, startAt, endAt, breaks) ==
  /\ employeeId \in EmployeeProfiles
  /\ departmentId \in Departments
  /\ workLocationId = None \/ workLocationId \in WorkLocations
  /\ startAt < endAt
  /\ breaks >= 0 /\ breaks * MsPerMinute <= endAt - startAt

Minutes(optional) == IF optional = Null THEN 0 ELSE optional[1]

ValidDto(dto) ==
  /\ ValidFields(dto.employeeId, dto.departmentId, dto.workLocationId,
                 dto.startAt, dto.endAt,
                 Minutes(dto.paidBreakMinutes) + Minutes(dto.unpaidBreakMinutes))
  /\ Minutes(dto.paidBreakMinutes) >= 0 /\ Minutes(dto.unpaidBreakMinutes) >= 0

StoredShift(id) == CHOOSE row \in Rows(shiftTable) : row.id = id
Stored(id) == \E row \in Rows(shiftTable) : row.id = id
Locked(id) == \E s \in Rows(sessionTable) : s.shiftId = id

\* the shift an update asks for: the given fields over the stored ones
Asked(id, dto) ==
  LET old == StoredShift(id)
  IN [employeeId |-> IF dto.employeeId = None THEN old.employeeId ELSE dto.employeeId,
      departmentId |-> IF dto.departmentId = None THEN old.departmentId
                       ELSE dto.departmentId,
      workLocationId |-> IF dto.workLocationId = None THEN old.workLocationId
                         ELSE dto.workLocationId,
      startAt |-> IF dto.startAt = Null THEN old.startAt ELSE dto.startAt[1],
      endAt |-> IF dto.endAt = Null THEN old.endAt ELSE dto.endAt[1],
      paidBreakMinutes |-> IF dto.paidBreakMinutes = Null
                           THEN <<old.paidBreakMinutes>> ELSE dto.paidBreakMinutes,
      unpaidBreakMinutes |-> IF dto.unpaidBreakMinutes = Null
                             THEN <<old.unpaidBreakMinutes>> ELSE dto.unpaidBreakMinutes]

\* C16: a create or update whose fields are valid (and, for update, whose
\* shift exists and is not locked by attendance) is rejected with the 409
\* conflict error exactly when another persisted shift of the same employee
\* has existing.start < candidate.end and existing.end > candidate.start;
\* the updated shift itself is left out, and a rejected request stores
\* nothing.
C16_ConflictIffOverlap ==
  [][/\ (input'.op = "create" /\ ValidDto(input'.dto)) =>
          /\ response'.status = 409 <=>
               Conflicts(shiftTable, input'.dto.employeeId, 0,
                         input'.dto.startAt, input'.dto.endAt)
          /\ response'.status = 409 => shiftTable' = shiftTable
     /\ (/\ input'.op = "update"
         /\ Stored(input'.id) /\ ~Locked(input'.id)
         /\ ValidDto(Asked(input'.id, input'.dto))) =>
          LET asked == Asked(input'.id, input'.dto)
          IN /\ response'.status = 409 <=>
                  Conflicts(shiftTable, asked.employeeId, input'.id,
                            asked.startAt, asked.endAt)
             /\ response'.status = 409 => shiftTable' = shiftTable]_vars

\* the shifts 09:00-12:00 and 12:00-15:00 of one employee are both stored,
\* and a create of 09:00-12:01 for that employee, one minute into the
\* second, was rejected
C16_Witness ==
  /\ input.op = "create" /\ response.status = 409
  /\ \E a \in Rows(shiftTable), b \in Rows(shiftTable) :
       /\ a.employeeId = input.dto.employeeId /\ b.employeeId = input.dto.employeeId
       /\ a.endAt = b.startAt
       /\ b.startAt = input.dto.endAt - MsPerMinute

\* C17: a shift row is stored or changed by create, bulkCreate or update only
\* after a verdict that does not block it; with the availability rows fixed,
\* every stored shift then has a non-blocking verdict.
BlockedByAvailability(row) ==
  checkAvailability(availabilityTable, row.employeeId, "c1",
                    startOfDay(row.startAt), row.startAt, row.endAt).blocked

C17_NoBlockedShiftStored ==
  \A row \in Rows(shiftTable) : ~BlockedByAvailability(row)

\* ----- vocabulary of the batch property
BatchFails(table, shifts) ==
  \/ \E i \in 1..Len(shifts) : ~ValidDto(shifts[i])
  \/ \E i \in 1..Len(shifts), j \in 1..Len(shifts) :
       /\ i # j /\ shifts[i].employeeId = shifts[j].employeeId
       /\ shifts[i].startAt < shifts[j].endAt /\ shifts[i].endAt > shifts[j].startAt
  \/ \E i \in 1..Len(shifts) :
       Conflicts(table, shifts[i].employeeId, 0, shifts[i].startAt, shifts[i].endAt)

StoredAs(row, dto) ==
  /\ row.employeeId = dto.employeeId
  /\ row.departmentId = dto.departmentId /\ row.workLocationId = dto.workLocationId
  /\ row.startAt = dto.startAt /\ row.endAt = dto.endAt
  /\ row.paidBreakMinutes = Minutes(dto.paidBreakMinutes)
  /\ row.unpaidBreakMinutes = Minutes(dto.unpaidBreakMinutes)
  /\ row.status = "PUBLISHED"

\* C18: a bulkCreate whose batch holds a shift that fails a validation
\* (unknown employee, department or work location, start not before end,
\* breaks below zero or longer than the shift, overlap with another shift of
\* the batch or with a stored shift of the same employee) is rejected and
\* leaves the stored shifts as they were; any other batch is stored whole,
\* after the rows already there.
C18_AllOrNothing ==
  [][input'.op = "bulkCreate" =>
       LET shifts == input'.shifts
           n == Len(shifts)
       IN IF BatchFails(shiftTable, shifts)
          THEN /\ shiftTable' = shiftTable
               /\ response'.status \in {400, 404, 409}
          ELSE /\ Len(shiftTable') = Len(shiftTable) + n
               /\ SubSeq(shiftTable', 1, Len(shiftTable)) = shiftTable
               /\ \A k \in 1..n : StoredAs(shiftTable'[Len(shiftTable) + k], shifts[k])
               /\ n > 0 => response'.status = 201]_vars

\* a batch of two was rejected for its second shift, and its first shift,
\* valid and free of conflicts, is not stored
C18_Witness ==
  /\ input.op = "bulkCreate" /\ response.status = 409
  /\ Len(input.shifts) = 2
  /\ ~BatchFails(shiftTable, <<input.shifts[1]>>)
  /\ Conflicts(shiftTable, input.shifts[2].employeeId, 0,
               input.shifts[2].startAt, input.shifts[2].endAt)
  /\ \A row \in Rows(shiftTable) : ~StoredAs(row, input.shifts[1])

\* ---------------------------------------------------------------- C19, C20
LockedError == "shift is locked because attendance has started"

\* C19: no step removes an attendance session or moves it to another shift,
\* and an update of a stored shift that has at least one attendance session,
\* open or closed, is answered 409 'shift is locked' and leaves the stored
\* shifts (employee, start, end, breaks, type and status) as they were.
C19_UpdateLockedByAttendance ==
  [][/\ \A s \in Rows(sessionTable) :
          \E t \in Rows(sessionTable') : t.id = s.id /\ t.shiftId = s.shiftId
     /\ (/\ input'.op = "update" /\ response'.op = "update"
         /\ sessionTable' = sessionTable /\ calls' = calls
         /\ Stored(input'.id) /\ Locked(input'.id)) =>
          /\ response'.status = 409
          /\ response'.error = LockedError
          /\ shiftTable' = shiftTable]_vars

\* shift 1 has a session that was checked out again, and an update moving
\* its end to 12:01, valid on every other count, was answered 'locked'
C19_Witness ==
  /\ input.op = "update" /\ input.id = 1
  /\ input.dto.endAt = <<At(2, LongMorning[2])>>
  /\ response.op = "update" /\ response.status = 409
  /\ response.error = LockedError
  /\ Locked(1)
  /\ \A s \in Rows(sessionTable) : s.actualEndAt # Null
  /\ StoredShift(1).endAt = At(2, Morning[2])

OpenSessionsOf(employeeId) ==
  {i \in 1..Len(sessionTable) :
     sessionTable[i].employeeId = employeeId /\ sessionTable[i].actualEndAt = Null}

\* C20: in every reachable state, under every interleaving of the steps of
\* the check-in calls, no employee has two attendance sessions with
\* actualEndAt null.
C20_OneOpenSession ==
  \A employeeId \in EmployeeProfiles : Cardinality(OpenSessionsOf(employeeId)) <= 1

\* the rejection alone: a call that finds an open session at its
\* findFirst step ends in 409 and adds no session
C20_RejectedWhenFound ==
  [][\A c \in 1..Len(calls) :
       (/\ calls[c].pc = "findActiveSession" /\ calls'[c].pc # "findActiveSession"
        /\ OpenSessionsOf(calls[c].employeeId) # {}) =>
         /\ calls'[c].status = 409 /\ calls'[c].pc = "done"
         /\ sessionTable' = sessionTable]_vars

\* --------------------------------------------------------------------- C21
\* C21: createWindowsForRule, for a non-all-day rule whose end time equals
\* its start time, returns two windows: [start, end of day] on the date and
\* [start of the next day, the end time on the next day].
C21_EqualTimesOvernight ==
  (/\ output.op = "createWindowsForRule"
   /\ ~input.rule.allDay
   /\ input.rule.startTimeLocal = input.rule.endTimeLocal) =>
    LET next == output.date + MsPerDay
    IN output.windows =
         <<Window(parseLocalTime(input.rule.startTimeLocal, output.date),
                  endOfDay(output.date)),
           Window(startOfDay(next), parseLocalTime(input.rule.endTimeLocal, next))>>

\* --------------------------------------------------------------------- C22
Elements(list) == {list[i] : i \in 1..Len(list)}

\* the instants a list of half-open windows covers; with whole-number ends
\* the unit cells [t, t+1) tell every instant apart
CoveredCells(list) == {t \in 0..3 : Covered(t, list)}

Overlapping(a, b) == a.start < b.end /\ b.start < a.end

Within(w, b) == b.start <= w.start /\ w.end <= b.end

\* C22: subtractWindows(base, cuts) covers exactly the instants of base that
\* no cut covers, and every window of it lies within a base window; against
\* one cut, a base window that does not overlap the cut (half-open test) is
\* kept as is, one that overlaps it is replaced by at most two remainders,
\* the part before the cut and the part after it, and by none when the cut
\* covers it from start to end.
C22_SubtractIsDifference ==
  output.op = "subtractWindows" =>
    /\ CoveredCells(output.out) = CoveredCells(input.base) \ CoveredCells(input.cuts)
    /\ \A w \in Elements(output.out) : \E b \in Elements(input.base) : Within(w, b)
    /\ \A i \in 1..Len(input.base), j \in 1..Len(input.cuts) :
         LET b == input.base[i]
             c == input.cuts[j]
             rest == output.each[i][j]
         IN /\ ~Overlapping(b, c) => rest = <<b>>
            /\ Overlapping(b, c) =>
                 /\ rest = (IF b.start < c.start THEN <<Window(b.start, c.start)>> ELSE <<>>)
                           \o (IF c.end < b.end THEN <<Window(c.end, b.end)>> ELSE <<>>)
                 /\ Within(b, c) => rest = <<>>

\* [0,3) is cut in two by [1,2), and [1,2) itself is dropped
C22_Witness ==
  /\ output.op = "subtractWindows"
  /\ input.base = <<Window(0, 3), Window(1, 2)>>
  /\ input.cuts = <<Window(1, 2)>>
  /\ output.out = <<Window(0, 1), Window(2, 3)>>

\* --------------------------------------------------------------------- C23
\* C23: every window of every ResolvedDay returned by resolveUnavailability
\* starts strictly before it ends and lies between the start of the day's
\* date and the end of the following day.
C23_ProperWindows ==
  output.op = "resolveUnavailability" =>
    \A i \in 1..Len(output.resolved) :
      LET day == output.resolved[i]
      IN \A k \in 1..Len(day.windows) :
           /\ day.windows[k].start < day.windows[k].end
           /\ startOfDay(day.date) <= day.windows[k].start
           /\ day.windows[k].end <= endOfDay(day.date + MsPerDay)

\* --------------------------------------------------------------------- C24
\* the windows of every resolved day from the day before the shift's date
\* to the day it ends on
WindowsAround ==
  LET days == resolveUnavailability(rulesTable, exceptionsTable, "e1",
                                    startOfDay(input.date) - MsPerDay,
                                    startOfDay(input.shiftEndTime))
  IN UNION {Elements(days[i].windows) : i \in 1..Len(days)}

\* C24: a shift that overlaps a window of any resolved day of the owner,
\* under whatever date the day is keyed, is answered blocked.
C24_OverlapAlwaysBlocked ==
  Checked =>
    ((\E w \in WindowsAround : BlockingWindow(w)) => output.result.blocked)

\* --------------------------------------------------------------------- C25
\* C25: the answer of the resolver is the same for every order in which the
\* stored rules and the stored exceptions are returned to it.
C25_OrderIndependent ==
  Answered =>
    \A p \in Permutations(1..Len(rulesTable)), q \in Permutations(1..Len(exceptionsTable)) :
      resolveUnavailability(Permuted(rulesTable, p), Permuted(exceptionsTable, q),
                            response.employeeId, response.from, response.to)
        = response.resolved

\* --------------------------------------------------------------------- C26
\* C26: under every interleaving of the steps of concurrent create calls, no
\* two stored shifts of one employee overlap.
C26_NoOverlapUnderRace ==
  \A i \in 1..Len(shiftTable), j \in 1..Len(shiftTable) :
    (i < j /\ shiftTable[i].employeeId = shiftTable[j].employeeId) =>
      ~OverlapsShift(shiftTable[i], shiftTable[j].startAt, shiftTable[j].endAt)

\* --------------------------------------------------------------------- C27
\* C27: every stored shift starts strictly before it ends and has paid plus
\* unpaid break minutes not above its length in minutes, and no two stored
\* shifts of one employee overlap (half-open test).
C27_StoredShiftsValid ==
  /\ \A row \in Rows(shiftTable) :
       /\ row.startAt < row.endAt
       /\ row.paidBreakMinutes >= 0 /\ row.unpaidBreakMinutes >= 0
       /\ (row.paidBreakMinutes + row.unpaidBreakMinutes) * MsPerMinute
            <= row.endAt - row.startAt
  /\ \A a \in Rows(shiftTable), b \in Rows(shiftTable) :
       (a.id # b.id /\ a.employeeId = b.employeeId) =>
         ~(a.startAt < b.endAt /\ b.startAt < a.endAt)

\* e1 and e2 each hold a shift over the same hours, and the update moving
\* the shift of e1 to e2 was rejected as a conflict
C27_Witness ==
  /\ Len(shiftTable) = 2
  /\ {shiftTable[1].employeeId, shiftTable[2].employeeId} = {"e1", "e2"}
  /\ shiftTable[1].startAt < shiftTable[2].endAt
  /\ shiftTable[2].startAt < shiftTable[1].endAt
  /\ input.op = "update" /\ input.dto.employeeId = "e2"
  /\ StoredShift(input.id).employeeId = "e1"
  /\ response.op = "update" /\ response.status = 409

\* --------------------------------------------------------------------- C28
\* C28: a create with valid fields that overlaps no shift of its employee
\* other than cancelled ones is not answered with the 409 conflict error.
C28_CancelledNotCounted ==
  [][(/\ input'.op = "create" /\ response'.op = "create"
      /\ ValidDto(input'.dto)
      /\ \A row \in Rows(shiftTable) :
           (/\ row.employeeId = input'.dto.employeeId
            /\ OverlapsShift(row, input'.dto.startAt, input'.dto.endAt)) =>
             row.status = "CANCELLED") =>
       response'.status # 409]_vars

\* C29: under attendance requests made one at a time, the events of every
\* session, in the order of their createdAt, are CHECK_IN, then BREAK_IN and
\* BREAK_OUT strictly alternating, then at most one CHECK_OUT as the last
\* event; breakIn is rejected while the last event is BREAK_IN, breakOut is
\* rejected unless the last event is BREAK_IN, checkOut is rejected while the
\* last event is BREAK_IN, and a session whose last event is CHECK_OUT gets
\* no further event.  The steps of a check-in are the ones that change calls.
EventTypes(session) ==
  LET events == session.events
      ordered == SortByKey(events, [i \in 1..Len(events) |-> events[i].createdAt])
  IN [i \in 1..Len(ordered) |-> ordered[i].type]

WellOrdered(types) ==
  /\ types # <<>>
  /\ types[1] = "CHECK_IN"
  /\ \A i \in 2..Len(types) :
       /\ types[i] \in {"BREAK_IN", "BREAK_OUT", "CHECK_OUT"}
       /\ types[i] = "BREAK_IN" => types[i-1] \in {"CHECK_IN", "BREAK_OUT"}
       /\ types[i] = "BREAK_OUT" => types[i-1] = "BREAK_IN"
       /\ types[i] = "CHECK_OUT" =>
            i = Len(types) /\ types[i-1] \in {"CHECK_IN", "BREAK_OUT"}

OnBreak(userId) ==
  \E i \in 1..Len(sessionTable) :
    /\ sessionTable[i].employeeId = ProfileOfUser(userId)
    /\ sessionTable[i].actualEndAt = Null
    /\ EventTypes(sessionTable[i])[Len(sessionTable[i].events)] = "BREAK_IN"

Working(userId) ==
  \E i \in 1..Len(sessionTable) :
    /\ sessionTable[i].employeeId = ProfileOfUser(userId)
    /\ sessionTable[i].actualEndAt = Null
    /\ EventTypes(sessionTable[i])[Len(sessionTable[i].events)] # "BREAK_IN"

C29_EventOrder ==
  [][ /\ \A i \in 1..Len(sessionTable') : WellOrdered(EventTypes(sessionTable'[i]))
      /\ \A i \in 1..Len(sessionTable') :
           (sessionTable'[i].actualEndAt # Null)
             <=> (EventTypes(sessionTable'[i])[Len(sessionTable'[i].events)] = "CHECK_OUT")
      /\ calls' = calls /\ input'.op \in {"breakIn", "checkOut"}
                         /\ OnBreak(input'.userId)
           => response'.status = 400 /\ sessionTable' = sessionTable
      /\ calls' = calls /\ input'.op = "breakOut" /\ Working(input'.userId)
           => response'.status = 400 /\ sessionTable' = sessionTable
      /\ \A i \in 1..Len(sessionTable) :
           EventTypes(sessionTable[i])[Len(sessionTable[i].events)] = "CHECK_OUT"
             => sessionTable'[i] = sessionTable[i] ]_vars

C29_Witness ==
  /\ \E i \in 1..Len(sessionTable) :
       EventTypes(sessionTable[i]) = <<"CHECK_IN", "BREAK_IN", "BREAK_OUT", "CHECK_OUT">>
  /\ response.op = "breakIn" /\ response.status = 404

\* C30: the totalWorkedMinutes checkOut stores on a session is never
\* negative.
C30_WorkedMinutesNotNegative ==
  \A i \in 1..Len(sessionTable) :
    sessionTable[i].totalWorkedMinutes # Null
      => sessionTable[i].totalWorkedMinutes[1] >= 0

====
